---- MODULE Spec2Model ----
(***************************************************************************)
(* State-machine model of the remotelab session gateway: the per-session   *)
(* ttyd processes (lib/sessions.mjs), the per-folder code-server processes *)
(* (lib/code-server.mjs), the reverse proxy (lib/proxy.mjs), the auth      *)
(* session table (lib/auth.mjs) and the router's handleRequest.            *)
(*                                                                         *)
(* Node.js runs handlers to their next await without interruption, so one  *)
(* action is one run of a handler (or of a continuation) between two       *)
(* suspension points.  Child processes and other programs on the host are  *)
(* the environment: they start listening, exit, and have their exit event  *)
(* delivered at any time.                                                  *)
(***************************************************************************)
EXTENDS Integers, Sequences, FiniteSets, TLC

\* ------------------------------------------------------------------ bounds
MaxProcs == 2       \* child processes launched in one run of the gateway
MaxNow == 2         \* clock ticks observed
MaxInFlight == 2    \* POST /login requests of one address reading their body
MaxFailures == 6    \* failed logins in a row from the owner's address
MaxStrangerFailures == 1   \* failed logins in a row from any other address
MaxWrites == 4      \* write requests the owner's address has admitted in a window
MaxStrangerWrites == 1     \* ... and any other address
MaxClock == 40      \* how far the clock runs while lockouts are waited out
MaxRequests == 2    \* GET requests whose response headers are followed
MaxTimers == 3      \* timeouts the page sets
MaxPageClock == 5   \* how far the page's clock runs
MaxDrops == 1       \* calls of onFiles that are followed
MaxHeaders == 2     \* headers of an upgrade request

\* --------------------------------------------------------------- constants
SessionIds == {"s1", "s2"}
IdOrder == <<"s1", "s2">>
Folders == {"fA", "fB"}
Tokens == {"t1"}
\* the browsers that ask for editors; each waits for the answer to its start
\* request before it sends another
Clients == <<"c1", "c2">>
NoToken == "none"
NoFolder == "none"

TTYD_PORT_RANGE_START == 1
TTYD_PORT_RANGE_END == 2
CS_PORT_RANGE_START == 11
CS_PORT_RANGE_END == 12
SESSION_EXPIRY == 1
\* the router's limits; times in minutes, the two table sizes scaled down
RATE_LIMIT_MAX == 5
RATE_LIMIT_WINDOW_MS == 1
LOCKOUT_CAP_MS == 15
MAX_TRACKED_IPS == 2
API_RATE_LIMIT == 3
API_RATE_WINDOW_MS == 1
SWEEP_AGE_MS == 15
NoLock == 0
Ips == {"a", "b", "c"}
NoPort == 0

TtydPorts == TTYD_PORT_RANGE_START..TTYD_PORT_RANGE_END
CsPorts == CS_PORT_RANGE_START..CS_PORT_RANGE_END
\* ports on which a program that is not a child of the gateway may listen
ForeignPorts == TtydPorts

VARIABLES
  registry,            \* sessions.json: sequence of session ids
  usedIds,             \* ids generateId has produced or the registry held
  sessionProcesses,    \* sessions.mjs: sessionId -> [port, process]
  ttydAllocated,       \* sessions.mjs: allocatedPorts
  ttydTask,            \* spawnSessionTtyd activations, by session id
  respawnList,         \* respawnAllSessions: the list loaded at startup
  respawnIdx,          \* respawnAllSessions: index of the session in hand
  codeServerProcesses, \* code-server.mjs: folder -> [port, process]
  csAllocated,         \* code-server.mjs: allocatedPorts
  csTask,              \* spawnCodeServer activations, by requesting client
  procs,               \* child processes ever launched
  foreign,             \* ports another program is listening on
  authSessions,        \* auth.mjs: token -> expiry
  now,                 \* Date.now()
  resp,                \* what the step that led here answered
  alive,               \* the gateway process is running
  sockets,             \* sessions whose dtach socket file exists
  authFile,            \* auth-sessions.json
  failedAttempts,      \* router: IP -> { count, lockedUntil }, in Map order
  loginTask,           \* POST /login requests reading their body, by address
  apiRateLimits,       \* router: IP -> { count, resetAt }, in Map order
  hist,                \* what each address has done, for the limiter's claims
  toolsFile,           \* tools.json: sequence of custom tools
  visible,             \* drop-zone.mjs: visible
  overlayClass,        \* the overlay element has the class 'visible'
  hideTimer,           \* drop-zone.mjs: hideTimer
  timers,              \* the page's pending timeouts: [id, due]
  timerSeq,            \* the id setTimeout returned last
  pageNow,             \* the page's clock
  attached,            \* the listeners of attach() are installed
  onFilesCalls,        \* the arguments onFiles was called with, in order
  iframes,             \* iframe -> [origin, body, injected, listeners]
  dropHist,            \* when the hide timer was last armed, for its claim
  csCookie,            \* the browser's cs_folder cookie
  editorPages          \* folders whose editor page the browser has open

vars == <<registry, usedIds, sessionProcesses, ttydAllocated, ttydTask,
          respawnList, respawnIdx, codeServerProcesses, csAllocated, csTask,
          procs, foreign, authSessions, now, resp, alive, sockets, authFile,
          failedAttempts, loginTask, apiRateLimits, hist, toolsFile,
          visible, overlayClass, hideTimer, timers, timerSeq, pageNow,
          attached, onFilesCalls, iframes, dropHist, csCookie, editorPages>>

ttydVars == <<sessionProcesses, ttydAllocated, ttydTask, respawnIdx>>
csVars == <<codeServerProcesses, csAllocated, csTask>>
authVars == <<authSessions, now>>
gwVars == <<alive, sockets, authFile>>
limiterVars == <<failedAttempts, loginTask, apiRateLimits, hist>>
dropVars == <<visible, overlayClass, hideTimer, timers, timerSeq, pageNow,
              attached, onFilesCalls, iframes, dropHist>>
browserVars == <<csCookie, editorPages>>
otherVars == <<toolsFile, dropVars, browserVars>>

\* ----------------------------------------------------------------- helpers
Min(S) == CHOOSE x \in S : \A y \in S : x <= y

Range(f) == {f[x] : x \in DOMAIN f}

MapRemove(m, k) == [x \in DOMAIN m \ {k} |-> m[x]]

MapSet(m, k, v) == [x \in DOMAIN m \cup {k} |-> IF x = k THEN v ELSE m[x]]

NoResp == [kind |-> "none"]

EmptyMap == [x \in {} |-> NoPort]

CsSlots == DOMAIN Clients

IdleTask == [pc |-> "none", port |-> NoPort]

IdleCsTask == [pc |-> "none", folder |-> NoFolder, port |-> NoPort]

\* ------------------------------------------------------- port availability
\* A connection attempt to localhost:port succeeds iff something listens.
Listening(port) ==
  \/ port \in foreign
  \/ \E i \in DOMAIN procs : procs[i].port = port /\ procs[i].st = "listening"

isPortAvailable(port) == ~Listening(port)

\* The synchronous part of getAvailablePort's loop: skip the ports already in
\* the allocation set and stop at the first one that has to be probed.
ScanFrom(allocated, from, last) ==
  LET cand == {q \in from..last : q \notin allocated}
  IN IF cand = {} THEN NoPort ELSE Min(cand)

\* ------------------------------------------------------------ auth.mjs
\* an isAuthenticated that never compares the expiry with the clock
isAuthenticated_IgnoresExpiry(tok) == tok \in DOMAIN authSessions

\* isAuthenticated's verdict for a request whose session_token cookie is tok.
isAuthenticated(tok) ==
  /\ tok \in DOMAIN authSessions
  /\ ~(now > authSessions[tok])

\* a router whose authentication gate lets every request through
passesGate_Open(tok) == TRUE

\* handleRequest's gate in front of the protected routes: whether a request
\* whose session_token cookie is tok goes on to its route's handler
passesGate(tok) == isAuthenticated(tok)

AuthTableAfter_KeepsExpired(tok) == authSessions

\* isAuthenticated's effect on the table: an expired entry found is deleted.
AuthTableAfter(tok) ==
  IF tok \in DOMAIN authSessions /\ now > authSessions[tok]
  THEN MapRemove(authSessions, tok)
  ELSE authSessions

\* Whether a request's session_token cookie names an entry of the table that
\* has not expired: what the requests' answers are judged against.
ValidCookie(tok) ==
  \E t \in DOMAIN authSessions : t = tok /\ authSessions[t] >= now

\* Whether it names an entry whose expiry has passed.
ExpiredCookie(tok) ==
  \E t \in DOMAIN authSessions : t = tok /\ authSessions[t] < now


\* saveAuthSessions: the whole table goes to auth-sessions.json
saveAuthSessions(table) == table

\* isAuthenticated's effect on the file: saved when an expired entry went
AuthFileAfter(tok) ==
  IF tok \in DOMAIN authSessions /\ now > authSessions[tok]
  THEN saveAuthSessions(MapRemove(authSessions, tok))
  ELSE authFile

\* ------------------------------------------------ router: rate limiting
\* A Map as the sequence of its entries in insertion order.
MapHas(m, ip) == \E k \in DOMAIN m : m[k].ip = ip
MapGet(m, ip) == m[CHOOSE k \in DOMAIN m : m[k].ip = ip]

\* Map.set: an existing key keeps its place, a new key goes last
MapPut(m, e) ==
  IF MapHas(m, e.ip)
  THEN [k \in DOMAIN m |-> IF m[k].ip = e.ip THEN e ELSE m[k]]
  ELSE Append(m, e)

\* Map.delete
MapDelete(m, ip) == SelectSeq(m, LAMBDA e : e.ip # ip)

evictOldest_DropsNewest(m) ==
  IF Len(m) > MAX_TRACKED_IPS THEN SubSeq(m, 1, Len(m) - 1) ELSE m

\* if (size > MAX_TRACKED_IPS) delete(keys().next().value)
evictOldest(m) == IF Len(m) > MAX_TRACKED_IPS THEN Tail(m) ELSE m

RECURSIVE Pow2(_)
Pow2(n) == IF n <= 0 THEN 1 ELSE 2 * Pow2(n - 1)

\* Math.min(RATE_LIMIT_WINDOW_MS * Math.pow(2, count - RATE_LIMIT_MAX), 15 min)
backoffMs_NoCap(count) == RATE_LIMIT_WINDOW_MS * Pow2(count - RATE_LIMIT_MAX)

backoffMs(count) ==
  LET b == RATE_LIMIT_WINDOW_MS * Pow2(count - RATE_LIMIT_MAX)
  IN IF b < LOCKOUT_CAP_MS THEN b ELSE LOCKOUT_CAP_MS

isRateLimited(ip) ==
  /\ MapHas(failedAttempts, ip)
  /\ MapGet(failedAttempts, ip).lockedUntil # NoLock
  /\ now < MapGet(failedAttempts, ip).lockedUntil

\* the failure table after recordFailedAttempt(ip)
recordFailedAttempt(ip) ==
  LET state == IF MapHas(failedAttempts, ip) THEN MapGet(failedAttempts, ip)
               ELSE [ip |-> ip, count |-> 0, lockedUntil |-> NoLock]
      count == state.count + 1
      next == [ip |-> ip, count |-> count,
               lockedUntil |-> IF count >= RATE_LIMIT_MAX
                               THEN now + backoffMs(count)
                               ELSE state.lockedUntil]
  IN evictOldest(MapPut(failedAttempts, next))

\* the failure table's setInterval callback
sweepFailedAttempts ==
  SelectSeq(failedAttempts,
            LAMBDA e : ~(e.lockedUntil # NoLock
                         /\ e.lockedUntil < now - SWEEP_AGE_MS))

clearFailedAttempts_KeepsEntry(ip) == failedAttempts

clearFailedAttempts(ip) == MapDelete(failedAttempts, ip)

\* the throttle table's setInterval callback
sweepApiRateLimits == SelectSeq(apiRateLimits, LAMBDA e : ~(e.resetAt < now))

\* isApiRateLimited(ip): its verdict, and the throttle table after the call
isApiRateLimited(ip) ==
  /\ MapHas(apiRateLimits, ip)
  /\ ~(MapGet(apiRateLimits, ip).resetAt < now)
  /\ MapGet(apiRateLimits, ip).count >= API_RATE_LIMIT

ApiTableAfter(ip) ==
  IF ~MapHas(apiRateLimits, ip) \/ MapGet(apiRateLimits, ip).resetAt < now
  THEN evictOldest(MapPut(apiRateLimits,
         [ip |-> ip, count |-> 1, resetAt |-> now + API_RATE_WINDOW_MS]))
  ELSE IF MapGet(apiRateLimits, ip).count >= API_RATE_LIMIT
  THEN apiRateLimits
  ELSE MapPut(apiRateLimits,
         [MapGet(apiRateLimits, ip) EXCEPT !.count = @ + 1])

\* What each address did, kept apart from the router's tables: the failed
\* logins since its last successful one, the end of the lockout those
\* failures earned, the lockout window its last failure was given, the
\* failures its last successful login put behind it,
\* and the write requests admitted in its current window; and the kind of
\* body the last admitted POST /api/sessions had.
LockoutWindow(n) == IF n >= 9 THEN 15 ELSE Pow2(n - 5)

HistInit ==
  [streak |-> [ip \in Ips |-> 0], lockEnd |-> [ip \in Ips |-> 0],
   forgiven |-> [ip \in Ips |-> 0], window |-> [ip \in Ips |-> 0],
   winEnd |-> [ip \in Ips |-> 0], winCount |-> [ip \in Ips |-> 0],
   posted |-> "none", requests |-> 0, nonces |-> {}]

HistAfterFailure(ip) ==
  LET n == hist.streak[ip] + 1
      e == MapGet(failedAttempts', ip)
  IN [hist EXCEPT !.streak[ip] = n,
                  !.lockEnd[ip] = IF n >= 5 THEN now + LockoutWindow(n) ELSE @,
                  !.window[ip] = IF e.lockedUntil = NoLock THEN 0
                                 ELSE e.lockedUntil - now]

HistAfterSuccess(ip) ==
  [hist EXCEPT !.streak[ip] = 0, !.lockEnd[ip] = 0,
               !.forgiven[ip] = hist.streak[ip]]

HistAfterAdmit(ip) ==
  IF hist.winCount[ip] = 0 \/ now > hist.winEnd[ip]
  THEN [hist EXCEPT !.winEnd[ip] = now + 1, !.winCount[ip] = 1]
  ELSE [hist EXCEPT !.winCount[ip] = @ + 1]


\* --------------------------------------------------- child processes
NewProc(kind, key, port) ==
  [kind |-> kind, key |-> key, port |-> port, st |-> "starting", sig |-> FALSE]

\* entry.process.kill('SIGTERM'): the process is told to exit
Signal(ps, i) == [ps EXCEPT ![i].sig = TRUE]

\* spawns that will still launch a process: activations at their probe, and
\* the sessions respawnAllSessions has not reached yet
PendingSpawns ==
  Cardinality({s \in SessionIds : ttydTask[s].pc = "probe"})
  + (IF respawnIdx <= Len(respawnList) THEN Len(respawnList) - respawnIdx ELSE 0)
  + Cardinality({r \in CsSlots : csTask[r].pc = "probe"})

CanLaunch == Len(procs) + PendingSpawns < MaxProcs

\* ------------------------------------------------------- sessions.mjs
\* allocatedPorts.add(port) once the probe found the port free
ReservePort(allocated, port) == allocated \cup {port}

\* allocatedPorts.delete(port)
ReleasePort(allocated, port) == allocated \ {port}

\* spawnSessionTtyd without the check for an existing handle
SpawnTtydStart_NoHandleCheck(s, handles, allocated) ==
  LET p == ScanFrom(allocated, TTYD_PORT_RANGE_START, TTYD_PORT_RANGE_END)
  IN IF p = NoPort THEN [pc |-> "raised", port |-> NoPort]
     ELSE [pc |-> "probe", port |-> p]

\* spawnSessionTtyd from its entry to its first await
SpawnTtydStart(s, handles, allocated) ==
  IF s \in DOMAIN handles
  THEN [pc |-> "done", port |-> handles[s].port]
  ELSE LET p == ScanFrom(allocated, TTYD_PORT_RANGE_START, TTYD_PORT_RANGE_END)
       IN IF p = NoPort THEN [pc |-> "raised", port |-> NoPort]
          ELSE [pc |-> "probe", port |-> p]

\* respawnAllSessions without its try/catch: the first spawn that raises ends
\* the loop
RECURSIVE RespawnRun_StopOnRaise(_, _, _, _)
RespawnRun_StopOnRaise(idx, tasks, handles, allocated) ==
  IF idx > Len(respawnList) THEN [idx |-> idx, tasks |-> tasks]
  ELSE IF idx > 1 /\ tasks[respawnList[idx - 1]].pc = "raised"
  THEN [idx |-> Len(respawnList) + 1, tasks |-> tasks]
  ELSE LET s == respawnList[idx]
           t == SpawnTtydStart(s, handles, allocated)
       IN IF t.pc = "probe"
          THEN [idx |-> idx, tasks |-> [tasks EXCEPT ![s] = t]]
          ELSE RespawnRun_StopOnRaise(idx + 1, [tasks EXCEPT ![s] = t],
                                      handles, allocated)

\* respawnAllSessions' loop from index idx to its next await: a spawn that
\* returns or raises without suspending lets the loop go on at once
RECURSIVE RespawnRun(_, _, _, _)
RespawnRun(idx, tasks, handles, allocated) ==
  IF idx > Len(respawnList) THEN [idx |-> idx, tasks |-> tasks]
  ELSE LET s == respawnList[idx]
           t == SpawnTtydStart(s, handles, allocated)
       IN IF t.pc = "probe"
          THEN [idx |-> idx, tasks |-> [tasks EXCEPT ![s] = t]]
          ELSE RespawnRun(idx + 1, [tasks EXCEPT ![s] = t], handles, allocated)

RespawnDone == respawnIdx > Len(respawnList)

\* a handler whose await of spawnSessionTtyd is not in a try/catch of its
\* own: what the spawn raises reaches the catch that answers 400
createSessionStatus_SpawnErrorEscapes(t) == IF t.pc = "raised" THEN 400 ELSE 201

\* POST /api/sessions once spawnSessionTtyd has ended, in state t: what the
\* spawn raises is logged, and the answer is 201 either way
createSessionStatus(t) == 201

\* the probe of spawnSessionTtyd(s) answers and the activation runs on to its
\* next await or to its end
TtydProbeReturn(s) ==
  /\ ttydTask[s].pc = "probe"
  /\ LET p == ttydTask[s].port
         avail == isPortAvailable(p)
         q == ScanFrom(ttydAllocated, p + 1, TTYD_PORT_RANGE_END)
         t == IF avail THEN [pc |-> "done", port |-> p]
              ELSE IF q = NoPort THEN [pc |-> "raised", port |-> NoPort]
              ELSE [pc |-> "probe", port |-> q]
         alloc2 == IF avail THEN ReservePort(ttydAllocated, p) ELSE ttydAllocated
         handles2 == IF avail
                     THEN MapSet(sessionProcesses, s,
                                 [port |-> p, process |-> Len(procs) + 1])
                     ELSE sessionProcesses
         tasks2 == [ttydTask EXCEPT ![s] = t]
         inRespawn == ~RespawnDone /\ respawnList[respawnIdx] = s
         rr == IF inRespawn /\ t.pc # "probe"
               THEN RespawnRun(respawnIdx + 1, tasks2, handles2, alloc2)
               ELSE [idx |-> respawnIdx, tasks |-> tasks2]
     IN /\ ttydAllocated' = alloc2
        /\ sessionProcesses' = handles2
        /\ procs' = IF avail THEN Append(procs, NewProc("ttyd", s, p)) ELSE procs
        /\ ttydTask' = rr.tasks
        /\ respawnIdx' = rr.idx
        /\ resp' = IF ~inRespawn /\ t.pc # "probe"
                   THEN [kind |-> "api", op |-> "createSession",
                         status |-> createSessionStatus(t)]
                   ELSE NoResp
  /\ UNCHANGED <<registry, usedIds, respawnList, csVars, foreign, authVars>>
  /\ UNCHANGED <<gwVars, otherVars, limiterVars>>

\* the probe of spawnSessionTtyd(s) finds the port free and reserves it, and
\* spawn(ttydPath, args) throws (no ttyd or no wrapper was found at startup):
\* the activation ends with that error
TtydLaunchRaises(s) ==
  /\ ttydTask[s].pc = "probe"
  /\ isPortAvailable(ttydTask[s].port)
  /\ LET p == ttydTask[s].port
         t == [pc |-> "raised", port |-> NoPort]
         alloc2 == ReservePort(ttydAllocated, p)
         tasks2 == [ttydTask EXCEPT ![s] = t]
         inRespawn == ~RespawnDone /\ respawnList[respawnIdx] = s
         rr == IF inRespawn
               THEN RespawnRun(respawnIdx + 1, tasks2, sessionProcesses, alloc2)
               ELSE [idx |-> respawnIdx, tasks |-> tasks2]
     IN /\ ttydAllocated' = alloc2
        /\ ttydTask' = rr.tasks
        /\ respawnIdx' = rr.idx
        /\ resp' = IF ~inRespawn
                   THEN [kind |-> "api", op |-> "createSession",
                         status |-> createSessionStatus(t)]
                   ELSE NoResp
  /\ UNCHANGED <<registry, usedIds, respawnList, sessionProcesses, procs,
                 csVars, foreign, authVars>>
  /\ UNCHANGED <<gwVars, otherVars, limiterVars>>

\* an 'exit' handler that forgets the handle and keeps the port reserved
TtydExitHandlerPorts_KeepsPort(port) == ttydAllocated

\* the 'exit' handler spawnSessionTtyd registers: (port, session.id) are the
\* values its closure captured
TtydExitHandlerPorts(port) == ReleasePort(ttydAllocated, port)

TtydExitHandlerHandles(id) == MapRemove(sessionProcesses, id)

\* killSessionTtyd(sessionId): [ports, handles, procs] after the call
killSessionTtyd(id) ==
  IF id \in DOMAIN sessionProcesses
  THEN [ports |-> ReleasePort(ttydAllocated, sessionProcesses[id].port),
        handles |-> MapRemove(sessionProcesses, id),
        procs |-> Signal(procs, sessionProcesses[id].process)]
  ELSE [ports |-> ttydAllocated, handles |-> sessionProcesses, procs |-> procs]

\* ------------------------------------------------- router: /api/sessions
FreshIds == {i \in DOMAIN IdOrder : IdOrder[i] \notin usedIds}

\* a generator that returns the same id on every call
generateId_Fixed == IdOrder[1]

\* randomBytes(16): an id no session has had
generateId == IdOrder[Min(FreshIds)]

SeqRemove(seq, x) == SelectSeq(seq, LAMBDA y : y # x)

\* a handler that works on the list it read when the gateway started
loadSessions_AtStartup == respawnList

\* loadSessions(): sessions.json as it is when the call is made
loadSessions == registry

\* POST /api/sessions from the push onto the registry to the await of
\* spawnSessionTtyd (or to the 201 when that does not suspend)
SessionCreated ==
  /\ FreshIds # {}
  /\ CanLaunch
  /\ LET id == generateId
         t == SpawnTtydStart(id, sessionProcesses, ttydAllocated)
     IN /\ registry' = Append(loadSessions, id)
        /\ usedIds' = usedIds \cup {id}
        /\ ttydTask' = [ttydTask EXCEPT ![id] = t]
        /\ resp' = IF t.pc = "probe" THEN NoResp
                   ELSE [kind |-> "api", op |-> "createSession",
                         status |-> createSessionStatus(t)]
  /\ UNCHANGED <<sessionProcesses, ttydAllocated, respawnList, respawnIdx,
                 csVars, procs, foreign>>

\* POST /api/sessions with a valid body, for a request the throttle admits
CreateSession(tok) ==
  /\ passesGate(tok)
  /\ SessionCreated
  /\ UNCHANGED <<authVars, gwVars, otherVars, limiterVars>>

\* The body of a POST /api/sessions: whether it parses as JSON, whether it
\* has a name, what its folder resolves to, its tool id and its type.
Bodies ==
  [parses : {TRUE}, name : BOOLEAN,
   folder : {"none", "missing", "file", "directory"},
   tool : {"none", "known", "unknown"}, shell : BOOLEAN]
  \cup [parses : {FALSE}, name : {FALSE}, folder : {"none"}, tool : {"none"},
        shell : {FALSE}]

\* What the requests' answers are judged against: a body that lacks name or
\* folder, names an unknown tool for a session that is not a shell, or names
\* a folder that is not an existing directory.
InvalidBody(body) ==
  /\ body.parses
  /\ \/ ~body.name
     \/ body.folder = "none"
     \/ ~body.shell /\ body.tool = "unknown"
     \/ body.folder \in {"missing", "file"}

\* the error the handler answers 400 with, or "ok"
validateSessionBody_NoFolderCheck(body) ==
  IF ~body.parses THEN "Invalid request body"
  ELSE IF ~body.name \/ body.folder = "none"
  THEN "Name and folder are required"
  ELSE IF ~body.shell /\ body.tool # "none" /\ body.tool # "known"
  THEN "Unknown tool"
  ELSE "ok"

validateSessionBody(body) ==
  IF ~body.parses THEN "Invalid request body"
  ELSE IF ~body.name \/ body.folder = "none"
  THEN "Name and folder are required"
  ELSE IF ~body.shell /\ body.tool # "none" /\ body.tool # "known"
  THEN "Unknown tool"
  ELSE IF body.folder # "directory"
  THEN "Folder does not exist"
  ELSE "ok"

\* POST /api/sessions past the authentication gate, from address ip.  The
\* part before the await of readBody touches the throttle table only and the
\* part after it never reads that table, so the two run here as one step.
PostSessions(ip, tok, body) ==
  /\ passesGate(tok)
  /\ IF isApiRateLimited(ip)
     THEN /\ resp' = [kind |-> "api", op |-> "createSession", status |-> 429,
                      retryAfter |-> 60, ip |-> ip]
          /\ UNCHANGED <<registry, usedIds, ttydVars, respawnList, csVars,
                         procs, foreign, apiRateLimits, hist>>
     ELSE /\ apiRateLimits' = ApiTableAfter(ip)
          /\ hist' = [HistAfterAdmit(ip) EXCEPT
                        !.posted = IF InvalidBody(body) THEN "invalid"
                                   ELSE "other"]
          /\ IF validateSessionBody(body) # "ok"
             THEN /\ resp' = [kind |-> "api", op |-> "createSession",
                              status |-> 400, ip |-> ip,
                              error |-> validateSessionBody(body)]
                  /\ UNCHANGED <<registry, usedIds, ttydVars, respawnList,
                                 csVars, procs, foreign>>
             ELSE SessionCreated
  /\ UNCHANGED <<authVars, gwVars, otherVars, failedAttempts, loginTask>>

\* sessionExists(getSessionSocketName(s)): the dtach socket file is there
sessionExists(id) == id \in sockets

\* killSession: signal the socket's holders and unlink the socket file
killSession(id) == sockets \ {id}

\* DELETE /api/sessions/<id>
\* a handler that stops the backend before it looks the id up
DeleteSession_KillsBeforeLookup(tok, id) ==
  /\ passesGate(tok)
  /\ LET k == killSessionTtyd(id)
     IN /\ ttydAllocated' = k.ports
        /\ sessionProcesses' = k.handles
        /\ procs' = k.procs
  /\ IF id \notin Range(registry)
     THEN /\ resp' = [kind |-> "api", op |-> "deleteSession", status |-> 404,
                       error |-> "Session not found"]
          /\ UNCHANGED <<registry, sockets>>
     ELSE /\ sockets' = killSession(id)
          /\ registry' = SeqRemove(registry, id)
          /\ resp' = [kind |-> "api", op |-> "deleteSession", status |-> 200]
  /\ UNCHANGED <<usedIds, ttydTask, respawnList, respawnIdx, csVars, foreign,
                 authVars, alive, otherVars, authFile, limiterVars>>

DeleteSession(tok, id) ==
  /\ passesGate(tok)
  /\ IF id \notin Range(registry)
     THEN /\ resp' = [kind |-> "api", op |-> "deleteSession", status |-> 404,
                       error |-> "Session not found"]
          /\ UNCHANGED <<registry, sessionProcesses, ttydAllocated, procs,
                         sockets>>
     ELSE LET k == killSessionTtyd(id)
          IN /\ ttydAllocated' = k.ports
             /\ sessionProcesses' = k.handles
             /\ procs' = k.procs
             /\ sockets' = killSession(id)
             /\ registry' = SeqRemove(registry, id)
             /\ resp' = [kind |-> "api", op |-> "deleteSession", status |-> 200]
  /\ UNCHANGED <<usedIds, ttydTask, respawnList, respawnIdx, csVars, foreign,
                 authVars, alive, otherVars, authFile, limiterVars>>

\* ---------------------------------------------------- code-server.mjs
\* the clients with no start request in flight
FreeCsSlots == {r \in CsSlots : csTask[r].pc = "none"}

\* spawnCodeServer's check for an existing handle (lines 120-122)
CsHasHandle(f) == f \in DOMAIN codeServerProcesses

\* POST /api/code-server/start for an existing folder: spawnCodeServer from
\* its entry to its first await (code-server is installed, so the first
\* await is the port probe), or to the answer when it does not suspend
StartCodeServer(tok, f) ==
  /\ passesGate(tok)
  /\ IF CsHasHandle(f)
     THEN /\ resp' = [kind |-> "api", op |-> "startCodeServer", status |-> 200,
                      port |-> codeServerProcesses[f].port]
          /\ UNCHANGED csTask
     ELSE /\ FreeCsSlots # {}
          /\ CanLaunch
          /\ LET r == Min(FreeCsSlots)
                 p == ScanFrom(csAllocated, CS_PORT_RANGE_START, CS_PORT_RANGE_END)
             IN IF p = NoPort
                THEN /\ resp' = [kind |-> "api", op |-> "startCodeServer",
                                 status |-> 500, port |-> NoPort]
                     /\ UNCHANGED csTask
                ELSE /\ csTask' = [csTask EXCEPT ![r] =
                                     [pc |-> "probe", folder |-> f, port |-> p]]
                     /\ resp' = NoResp
  /\ UNCHANGED <<registry, usedIds, ttydVars, respawnList, codeServerProcesses,
                 csAllocated, procs, foreign, authVars>>
  /\ UNCHANGED <<gwVars, otherVars, limiterVars>>

\* the probe of the activation in slot r answers; on a free port the port is
\* reserved, the process launched and the handle recorded, and the
\* activation waits for the port to accept connections
CsProbeReturn(r) ==
  /\ csTask[r].pc = "probe"
  /\ LET p == csTask[r].port
         f == csTask[r].folder
         avail == isPortAvailable(p)
         q == ScanFrom(csAllocated, p + 1, CS_PORT_RANGE_END)
     IN IF avail
        THEN /\ csAllocated' = ReservePort(csAllocated, p)
             /\ procs' = Append(procs, NewProc("cs", f, p))
             /\ codeServerProcesses' =
                  MapSet(codeServerProcesses, f,
                         [port |-> p, process |-> Len(procs) + 1])
             /\ csTask' = [csTask EXCEPT ![r].pc = "waiting"]
             /\ resp' = NoResp
        ELSE /\ UNCHANGED <<csAllocated, procs, codeServerProcesses>>
             /\ IF q = NoPort
                THEN /\ csTask' = [csTask EXCEPT ![r] = IdleCsTask]
                     /\ resp' = [kind |-> "api", op |-> "startCodeServer",
                                 status |-> 500, port |-> NoPort]
                ELSE /\ csTask' = [csTask EXCEPT ![r].port = q]
                     /\ resp' = NoResp
  /\ UNCHANGED <<registry, usedIds, ttydVars, respawnList, foreign, authVars>>
  /\ UNCHANGED <<gwVars, otherVars, limiterVars>>

\* the probe of the activation in slot r finds the port free and reserves it,
\* and mkdirSync(userDataDir) or spawn(codeServerPath, args) throws: the
\* start request is answered 500
CsLaunchRaises(r) ==
  /\ csTask[r].pc = "probe"
  /\ isPortAvailable(csTask[r].port)
  /\ csAllocated' = ReservePort(csAllocated, csTask[r].port)
  /\ csTask' = [csTask EXCEPT ![r] = IdleCsTask]
  /\ resp' = [kind |-> "api", op |-> "startCodeServer", status |-> 500,
              port |-> NoPort]
  /\ UNCHANGED <<registry, usedIds, ttydVars, respawnList,
                 codeServerProcesses, procs, foreign, authVars>>
  /\ UNCHANGED <<gwVars, otherVars, limiterVars>>

\* waitForPort(port, 15000) settles: the port accepted a connection, or the
\* 15 s ran out
CsWaitReturn(r) ==
  /\ csTask[r].pc = "waiting"
  /\ csTask' = [csTask EXCEPT ![r] = IdleCsTask]
  /\ resp' = [kind |-> "api", op |-> "startCodeServer",
              status |-> IF Listening(csTask[r].port) THEN 200 ELSE 500,
              port |-> IF Listening(csTask[r].port) THEN csTask[r].port ELSE NoPort]
  /\ UNCHANGED <<registry, usedIds, ttydVars, respawnList, codeServerProcesses,
                 csAllocated, procs, foreign, authVars>>
  /\ UNCHANGED <<gwVars, otherVars, limiterVars>>

\* the 'exit' handler spawnCodeServer registers, closed over (port, folder)
CsExitHandlerPorts(port) == ReleasePort(csAllocated, port)

CsExitHandlerHandles(f) == MapRemove(codeServerProcesses, f)

\* stopCodeServer(folder): [ports, handles, procs] after the call
stopCodeServer(f) ==
  IF f \in DOMAIN codeServerProcesses
  THEN [ports |-> ReleasePort(csAllocated, codeServerProcesses[f].port),
        handles |-> MapRemove(codeServerProcesses, f),
        procs |-> Signal(procs, codeServerProcesses[f].process)]
  ELSE [ports |-> csAllocated, handles |-> codeServerProcesses, procs |-> procs]

\* POST /api/code-server/stop
StopCodeServer(tok, f) ==
  /\ passesGate(tok)
  /\ LET k == stopCodeServer(f)
     IN /\ csAllocated' = k.ports
        /\ codeServerProcesses' = k.handles
        /\ procs' = k.procs
  /\ resp' = [kind |-> "api", op |-> "stopCodeServer", status |-> 200]
  /\ UNCHANGED <<registry, usedIds, ttydVars, respawnList, csTask, foreign,
                 authVars>>
  /\ UNCHANGED <<gwVars, otherVars, limiterVars>>

\* ------------------------------------------------ the environment
\* a launched process binds its port: it listens, or finds the port taken
\* and exits
ProcListen(i) ==
  /\ procs[i].st = "starting"
  /\ procs' = [procs EXCEPT ![i].st =
                 IF Listening(procs[i].port) THEN "exited" ELSE "listening"]
  /\ resp' = NoResp
  /\ UNCHANGED <<registry, usedIds, ttydVars, respawnList, csVars, foreign,
                 authVars>>
  /\ UNCHANGED <<gwVars, otherVars, limiterVars>>

\* a process exits: on the SIGTERM it was sent, or on its own
ProcExit(i) ==
  /\ procs[i].st \in {"starting", "listening"}
  /\ procs' = [procs EXCEPT ![i].st = "exited"]
  /\ resp' = NoResp
  /\ UNCHANGED <<registry, usedIds, ttydVars, respawnList, csVars, foreign,
                 authVars>>
  /\ UNCHANGED <<gwVars, otherVars, limiterVars>>

\* Node delivers the 'exit' event of process i and its handler runs
ExitEvent(i) ==
  /\ procs[i].st = "exited"
  /\ procs' = [procs EXCEPT ![i].st = "reaped"]
  /\ IF procs[i].kind = "ttyd"
     THEN /\ ttydAllocated' = TtydExitHandlerPorts(procs[i].port)
          /\ sessionProcesses' = TtydExitHandlerHandles(procs[i].key)
          /\ UNCHANGED <<codeServerProcesses, csAllocated>>
     ELSE /\ csAllocated' = CsExitHandlerPorts(procs[i].port)
          /\ codeServerProcesses' = CsExitHandlerHandles(procs[i].key)
          /\ UNCHANGED <<sessionProcesses, ttydAllocated>>
  /\ resp' = NoResp
  /\ UNCHANGED <<registry, usedIds, ttydTask, respawnList, respawnIdx, csTask,
                 foreign, authVars>>
  /\ UNCHANGED <<gwVars, otherVars, limiterVars>>

\* another program starts or stops listening on a port of the range
ForeignStart(p) ==
  /\ ~Listening(p)
  /\ foreign' = foreign \cup {p}
  /\ resp' = NoResp
  /\ UNCHANGED <<registry, usedIds, ttydVars, respawnList, csVars, procs,
                 authVars>>
  /\ UNCHANGED <<gwVars, otherVars, limiterVars>>

ForeignStop(p) ==
  /\ p \in foreign
  /\ foreign' = foreign \ {p}
  /\ resp' = NoResp
  /\ UNCHANGED <<registry, usedIds, ttydVars, respawnList, csVars, procs,
                 authVars>>
  /\ UNCHANGED <<gwVars, otherVars, limiterVars>>

Tick ==
  /\ now < MaxNow
  /\ now' = now + 1
  /\ resp' = NoResp
  /\ UNCHANGED <<registry, usedIds, ttydVars, respawnList, csVars, procs,
                 foreign, authSessions>>
  /\ UNCHANGED <<gwVars, otherVars, limiterVars>>

\* ------------------------------------------------------------ proxy.mjs
getSessionPort(id) ==
  IF id \in DOMAIN sessionProcesses THEN sessionProcesses[id].port ELSE NoPort

getCodeServerPort(f) ==
  IF f \in DOMAIN codeServerProcesses THEN codeServerProcesses[f].port ELSE NoPort

\* the cs_folder cookie names the folder; no cookie, no port
getCodeServerPortFromCookie(csf) ==
  IF csf = NoFolder THEN NoPort ELSE getCodeServerPort(csf)

\* A request: its path is /terminal/<key>..., /code/<key>/... or another
\* path; tok is its session_token cookie and csf its cs_folder cookie (read
\* on other paths only).
Requests ==
  [route : {"terminal"}, key : SessionIds, tok : Tokens \cup {NoToken},
   csf : {NoFolder}]
  \cup [route : {"code"}, key : Folders, tok : Tokens \cup {NoToken},
        csf : {NoFolder}]
  \cup [route : {"other"}, key : {"none"}, tok : Tokens \cup {NoToken},
        csf : Folders \cup {NoFolder}]

\* an upgrade handler that resolves the backend port before it looks at the
\* session cookie
WsOutcome_PortFirst(req) ==
  LET port == IF req.route = "terminal" THEN getSessionPort(req.key)
              ELSE IF req.route = "code" THEN getCodeServerPort(req.key)
              ELSE getCodeServerPortFromCookie(req.csf)
  IN IF port = NoPort
     THEN [status |-> "404", port |-> NoPort, auth |-> FALSE]
     ELSE IF ~isAuthenticated(req.tok)
     THEN [status |-> "401", port |-> NoPort, auth |-> TRUE]
     ELSE [status |-> "connect", port |-> port, auth |-> TRUE]

\* handleWebSocketUpgrade: what it writes to the client socket, or the port
\* it connects to; auth tells whether isAuthenticated was called
WsOutcome(req) ==
  LET isTerminal == req.route = "terminal"
      isCode == req.route = "code"
      csPort == IF ~isTerminal /\ ~isCode
                THEN getCodeServerPortFromCookie(req.csf) ELSE NoPort
      port == IF isTerminal THEN getSessionPort(req.key)
              ELSE IF isCode THEN getCodeServerPort(req.key)
              ELSE csPort
  IN IF ~isTerminal /\ ~isCode /\ csPort = NoPort
     THEN [status |-> "404", port |-> NoPort, auth |-> FALSE]
     ELSE IF ~isAuthenticated(req.tok)
     THEN [status |-> "401", port |-> NoPort, auth |-> TRUE]
     ELSE IF port = NoPort
     THEN [status |-> "404", port |-> NoPort, auth |-> TRUE]
     ELSE [status |-> "connect", port |-> port, auth |-> TRUE]

\* server.on('upgrade', handleWebSocketUpgrade)
WsUpgrade(req) ==
  /\ LET o == WsOutcome(req)
     IN /\ resp' = [kind |-> "ws", route |-> req.route, key |-> req.key,
                    csf |-> req.csf, tok |-> req.tok,
                    authed |-> ValidCookie(req.tok),
                    expired |-> ExpiredCookie(req.tok),
                    status |-> o.status, port |-> o.port]
        /\ authSessions' = IF o.auth THEN AuthTableAfter(req.tok)
                           ELSE authSessions
        /\ authFile' = IF o.auth THEN AuthFileAfter(req.tok) ELSE authFile
  /\ UNCHANGED <<registry, usedIds, ttydVars, respawnList, csVars, procs,
                 foreign, now, alive, otherVars, sockets, limiterVars>>

\* handleRequest for a plain HTTP request to /terminal/..., /code/... or to a
\* path no route matches: the answer, or the port the request is forwarded to
HttpOutcome(req) ==
  IF req.route = "terminal"
  THEN IF getSessionPort(req.key) = NoPort
       THEN [status |-> "404", port |-> NoPort, auth |-> FALSE]
       ELSE [status |-> "proxied", port |-> getSessionPort(req.key),
             auth |-> FALSE]
  ELSE IF ~isAuthenticated(req.tok)
  THEN [status |-> "302", port |-> NoPort, auth |-> TRUE]
  ELSE IF req.route = "code"
  THEN IF getCodeServerPort(req.key) = NoPort
       THEN [status |-> "404", port |-> NoPort, auth |-> TRUE]
       ELSE [status |-> "proxied", port |-> getCodeServerPort(req.key),
             auth |-> TRUE]
  ELSE IF getCodeServerPortFromCookie(req.csf) = NoPort
       THEN [status |-> "404", port |-> NoPort, auth |-> TRUE]
       ELSE [status |-> "proxied",
             port |-> getCodeServerPortFromCookie(req.csf), auth |-> TRUE]

HttpRequest(req) ==
  /\ LET o == HttpOutcome(req)
     IN /\ resp' = [kind |-> "http", route |-> req.route, key |-> req.key,
                    csf |-> req.csf, tok |-> req.tok,
                    authed |-> ValidCookie(req.tok),
                    expired |-> ExpiredCookie(req.tok),
                    status |-> o.status, port |-> o.port]
        /\ authSessions' = IF o.auth THEN AuthTableAfter(req.tok)
                           ELSE authSessions
        /\ authFile' = IF o.auth THEN AuthFileAfter(req.tok) ELSE authFile
  /\ UNCHANGED <<registry, usedIds, ttydVars, respawnList, csVars, procs,
                 foreign, now, alive, otherVars, sockets, limiterVars>>

\* --------------------------------------------- the editor in the browser
\* what proxyToCodeServer and the catch-all leave alone
EditorFrame ==
  UNCHANGED <<registry, usedIds, ttydVars, respawnList, csVars, procs,
              foreign, now, alive, sockets, limiterVars, toolsFile, dropVars>>

\* the cs_folder cookie after the answer to GET /code/<f>/: the backend's
\* response is relayed with `cs_folder=<f>; Path=/` added to its cookies
csCookieAfter(f, relayed) == IF relayed THEN f ELSE csCookie

\* the browser navigates to /code/<f>/ with session cookie tok
OpenEditor(tok, f) ==
  LET o == HttpOutcome([route |-> "code", key |-> f, tok |-> tok,
                        csf |-> csCookie])
      relayed == o.status = "proxied" /\ Listening(o.port)
  IN /\ resp' = [kind |-> "open", page |-> f, status |-> o.status,
                 port |-> o.port, relayed |-> relayed]
     /\ authSessions' = AuthTableAfter(tok)
     /\ authFile' = AuthFileAfter(tok)
     /\ csCookie' = csCookieAfter(f, relayed)
     /\ editorPages' = IF relayed THEN editorPages \cup {f} ELSE editorPages
     /\ EditorFrame

\* the page loaded from folder page's editor asks for an absolute path: an
\* asset or API call over HTTP, or (ws) a WebSocket upgrade; the browser
\* sends its cookies along
EditorPageRequest(tok, page, ws) ==
  /\ page \in editorPages
  /\ LET req == [route |-> "other", key |-> "none", tok |-> tok,
                 csf |-> csCookie]
         o == IF ws THEN WsOutcome(req) ELSE HttpOutcome(req)
     IN /\ resp' = [kind |-> "editor", page |-> page, ws |-> ws,
                    csf |-> csCookie, authed |-> ValidCookie(tok),
                    status |-> o.status, port |-> o.port]
        /\ authSessions' = IF o.auth THEN AuthTableAfter(tok)
                           ELSE authSessions
        /\ authFile' = IF o.auth THEN AuthFileAfter(tok) ELSE authFile
  /\ UNCHANGED browserVars
  /\ EditorFrame

\* ------------------------------------------- router: security headers
\* A GET request by its path: /terminal/<key>..., /code/<key>/..., /terminal
\* itself, /login, / or a path no route matches.  own tells whether the
\* backend that answers a forwarded request sends a Content-Security-Policy
\* of its own.
PageRequests ==
  [route : {"terminal"}, key : SessionIds, tok : Tokens \cup {NoToken},
   csf : {NoFolder}, own : BOOLEAN]
  \cup [route : {"code"}, key : Folders, tok : Tokens \cup {NoToken},
        csf : {NoFolder}, own : BOOLEAN]
  \cup [route : {"terminalRoot", "login", "dashboard"}, key : {"none"},
        tok : Tokens \cup {NoToken}, csf : {NoFolder}, own : {FALSE}]
  \cup [route : {"other"}, key : {"none"}, tok : Tokens \cup {NoToken},
        csf : Folders \cup {NoFolder}, own : BOOLEAN]

\* the headers of a response nothing was set on: base tells whether the
\* five fixed headers are present, csp whose policy it carries
NoHeaders == [base |-> FALSE, csp |-> "none", nonce |-> 0]

\* setSecurityHeaders(res, nonce)
setSecurityHeaders(nonce) == [base |-> TRUE, csp |-> "gateway", nonce |-> nonce]

\* res.writeHead(proxyRes.statusCode, proxyRes.headers): the headers set on
\* res so far stay, except those the backend sends itself
writeHead(set, own) ==
  IF own THEN [base |-> set.base, csp |-> "backend", nonce |-> 0] ELSE set

\* a handler that sets the headers before it looks at the path
proxiedBeforeHeaders_HeadersFirst(route) == FALSE

\* the paths handleRequest hands to a proxy before setSecurityHeaders
proxiedBeforeHeaders(route) == route \in {"terminal", "terminalRoot", "code"}

\* randomBytes(16).toString('base64'): a value no request had
generateNonce == Cardinality(hist.nonces) + 1

\* handleRequest for a GET: the answer, or the port it is forwarded to
PageOutcome(req) ==
  IF req.route = "terminalRoot"
  THEN [status |-> "404", port |-> NoPort, auth |-> FALSE]
  ELSE IF req.route = "login"
  THEN [status |-> "200", port |-> NoPort, auth |-> FALSE]
  ELSE IF req.route = "dashboard"
  THEN IF isAuthenticated(req.tok)
       THEN [status |-> "200", port |-> NoPort, auth |-> TRUE]
       ELSE [status |-> "302", port |-> NoPort, auth |-> TRUE]
  ELSE HttpOutcome([route |-> req.route, key |-> req.key, tok |-> req.tok,
                    csf |-> req.csf])

\* handleRequest for a GET, with the headers of the response
HandleRequest(req) ==
  /\ LET o == PageOutcome(req)
         early == proxiedBeforeHeaders(req.route)
         nonce == generateNonce
         set == IF early THEN NoHeaders ELSE setSecurityHeaders(nonce)
         relayed == o.status = "proxied"
     IN /\ resp' = [kind |-> "page", route |-> req.route, key |-> req.key,
                    csf |-> req.csf, tok |-> req.tok, status |-> o.status,
                    port |-> o.port, relayed |-> relayed,
                    headers |-> IF relayed THEN writeHead(set, req.own)
                                ELSE set]
        /\ hist' = [hist EXCEPT !.requests = @ + 1,
                                !.nonces = IF early THEN @ ELSE @ \cup {nonce}]
        /\ authSessions' = IF o.auth THEN AuthTableAfter(req.tok)
                           ELSE authSessions
        /\ authFile' = IF o.auth THEN AuthFileAfter(req.tok) ELSE authFile
  /\ UNCHANGED <<registry, usedIds, ttydVars, respawnList, csVars, procs,
                 foreign, now, alive, otherVars, sockets, failedAttempts, loginTask,
                 apiRateLimits>>

\* ------------------------------------------------- router: login, logout
\* randomBytes(32): a token not in the table
FreshTokens == Tokens \ DOMAIN authSessions

\* the address the owner logs in from
Owner == "a"

\* no POST /login is waiting for its body
NoLoginInFlight == \A ip \in Ips : loginTask[ip] = 0

\* POST /login up to its await of the body: the lockout check
LoginStart(ip) ==
  /\ IF isRateLimited(ip)
     THEN /\ resp' = [kind |-> "login", status |-> "429", ip |-> ip,
                      tok |-> NoToken, retryAfter |-> 60]
          /\ UNCHANGED loginTask
     ELSE /\ loginTask[ip] < MaxInFlight
          /\ loginTask' = [loginTask EXCEPT ![ip] = @ + 1]
          /\ resp' = NoResp
  /\ UNCHANGED <<registry, usedIds, ttydVars, respawnList, csVars, procs,
                 foreign, authVars, gwVars, otherVars, failedAttempts, apiRateLimits,
                 hist>>

\* ... and from the body on, with the configured username and password
LoginOk(ip) ==
  /\ loginTask[ip] > 0
  /\ FreshTokens # {}
  /\ LET t == CHOOSE x \in FreshTokens : TRUE
     IN /\ authSessions' = MapSet(authSessions, t, now + SESSION_EXPIRY)
        /\ resp' = [kind |-> "login", status |-> "302", ip |-> ip, tok |-> t]
  /\ authFile' = saveAuthSessions(authSessions')
  /\ failedAttempts' = clearFailedAttempts(ip)
  /\ loginTask' = [loginTask EXCEPT ![ip] = @ - 1]
  /\ hist' = HistAfterSuccess(ip)
  /\ UNCHANGED <<registry, usedIds, ttydVars, respawnList, csVars, procs,
                 foreign, now, alive, otherVars, sockets, apiRateLimits>>

\* ... with any other username or password
LoginFail(ip) ==
  /\ loginTask[ip] > 0
  /\ failedAttempts' = recordFailedAttempt(ip)
  /\ loginTask' = [loginTask EXCEPT ![ip] = @ - 1]
  /\ hist' = HistAfterFailure(ip)
  /\ resp' = [kind |-> "login", status |-> "200", ip |-> ip, tok |-> NoToken]
  /\ UNCHANGED <<registry, usedIds, ttydVars, respawnList, csVars, procs,
                 foreign, authVars, gwVars, otherVars, apiRateLimits>>

\* GET /logout
Logout(tok) ==
  /\ authSessions' = IF tok # NoToken THEN MapRemove(authSessions, tok)
                     ELSE authSessions
  /\ authFile' = IF tok # NoToken THEN saveAuthSessions(authSessions')
                 ELSE authFile
  /\ resp' = [kind |-> "logout", status |-> "302", tok |-> tok]
  /\ UNCHANGED <<registry, usedIds, ttydVars, respawnList, csVars, procs,
                 foreign, now, alive, otherVars, sockets, limiterVars>>


\* ------------------------------------------- requests that do not decode
\* a percent-encoding decodeURIComponent rejects, such as %E0%A4%A
BadEncoding == "%E0%A4%A"
URIError == "URIError"

\* decodeURIComponent on a path segment or cookie value: the folder it
\* encodes, or the URIError it throws
decodeURIComponent(x) == IF x = BadEncoding THEN URIError ELSE x

\* requests whose /code/ path segment or cs_folder cookie does not decode
MalformedRequests ==
  [route : {"code"}, key : {BadEncoding}, tok : Tokens \cup {NoToken},
   csf : {NoFolder}]
  \cup [route : {"other"}, key : {"none"}, tok : Tokens \cup {NoToken},
        csf : {BadEncoding}]

\* handleWebSocketUpgrade on such a request: the cookie is decoded before the
\* authentication check, the path after it
WsMalformedOutcome(req) ==
  IF req.route = "other"
  THEN IF decodeURIComponent(req.csf) = URIError
       THEN [status |-> "throws", auth |-> FALSE]
       ELSE [status |-> "404", auth |-> FALSE]
  ELSE IF ~isAuthenticated(req.tok)
  THEN [status |-> "401", auth |-> TRUE]
  ELSE IF decodeURIComponent(req.key) = URIError
  THEN [status |-> "throws", auth |-> TRUE]
  ELSE [status |-> "404", auth |-> TRUE]

\* The 'upgrade' listener is handleWebSocketUpgrade itself: what it throws is
\* an uncaught exception, and no handler for those is installed.
WsUpgradeMalformed(req) ==
  /\ alive
  /\ LET o == WsMalformedOutcome(req)
     IN /\ resp' = [kind |-> "ws", route |-> req.route, key |-> req.key,
                    csf |-> req.csf, tok |-> req.tok,
                    authed |-> ValidCookie(req.tok),
                    expired |-> ExpiredCookie(req.tok),
                    status |-> o.status, port |-> NoPort]
        /\ alive' = (o.status # "throws")
        /\ authSessions' = IF o.auth THEN AuthTableAfter(req.tok)
                           ELSE authSessions
        /\ authFile' = IF o.auth THEN AuthFileAfter(req.tok) ELSE authFile
  /\ UNCHANGED <<registry, usedIds, ttydVars, respawnList, csVars, procs,
                 foreign, now, sockets, limiterVars, otherVars>>

\* handleRequest on such a request: past the authentication gate the decoding
\* throws inside the async handler, and the server's .catch answers 500
HttpMalformedOutcome(req) ==
  IF ~isAuthenticated(req.tok) THEN "302"
  ELSE IF decodeURIComponent(IF req.route = "code" THEN req.key ELSE req.csf)
          = URIError
  THEN "500"
  ELSE "404"

HttpRequestMalformed(req) ==
  /\ alive
  /\ resp' = [kind |-> "http", route |-> req.route, key |-> req.key,
              csf |-> req.csf, tok |-> req.tok,
              authed |-> ValidCookie(req.tok),
              expired |-> ExpiredCookie(req.tok),
              status |-> HttpMalformedOutcome(req), port |-> NoPort]
  /\ authSessions' = AuthTableAfter(req.tok)
  /\ authFile' = AuthFileAfter(req.tok)
  /\ UNCHANGED <<registry, usedIds, ttydVars, respawnList, csVars, procs,
                 foreign, now, alive, otherVars, sockets, limiterVars>>


\* the failure table's sweep timer fires
SweepFailedAttempts ==
  /\ failedAttempts' = sweepFailedAttempts
  /\ resp' = NoResp
  /\ UNCHANGED <<registry, usedIds, ttydVars, respawnList, csVars, procs,
                 foreign, authVars, gwVars, otherVars, loginTask, apiRateLimits, hist>>

\* The instants at which the failure table's meaning changes: a lockout
\* ends, or an entry becomes old enough for the sweep.
WakeTimes ==
  {failedAttempts[k].lockedUntil : k \in DOMAIN failedAttempts}
  \cup {failedAttempts[k].lockedUntil + SWEEP_AGE_MS + 1 :
          k \in DOMAIN failedAttempts}

\* nothing happens until instant t
TimePasses(t) ==
  /\ now < t
  /\ t <= MaxClock
  /\ now' = t
  /\ resp' = NoResp
  /\ UNCHANGED <<registry, usedIds, ttydVars, respawnList, csVars, procs,
                 foreign, authSessions, gwVars, otherVars, limiterVars>>


\* the throttle table's sweep timer fires
SweepApiRateLimits ==
  /\ apiRateLimits' = sweepApiRateLimits
  /\ resp' = NoResp
  /\ UNCHANGED <<registry, usedIds, ttydVars, respawnList, csVars, procs,
                 foreign, authVars, gwVars, otherVars, failedAttempts, loginTask, hist>>


\* ------------------------------------------------ the sessions' sockets
\* A browser opens the terminal of session s: its ttyd runs the wrapper,
\* whose dtach -A creates the socket if it is not there.
ClientAttach(s) ==
  /\ \E i \in DOMAIN procs :
       /\ procs[i].kind = "ttyd"
       /\ procs[i].key = s
       /\ procs[i].st = "listening"
  /\ sockets' = sockets \cup {s}
  /\ resp' = NoResp
  /\ UNCHANGED <<registry, usedIds, ttydVars, respawnList, csVars, procs,
                 foreign, authVars, alive, otherVars, authFile, limiterVars>>

\* The program inside the dtach session of s ends: dtach removes the socket.
ToolExits(s) ==
  /\ s \in sockets
  /\ sockets' = sockets \ {s}
  /\ resp' = NoResp
  /\ UNCHANGED <<registry, usedIds, ttydVars, respawnList, csVars, procs,
                 foreign, authVars, alive, otherVars, authFile, limiterVars>>

\* GET /api/sessions: the registry's sessions, and those flagged active
ListSessions(tok) ==
  /\ passesGate(tok)
  /\ resp' = [kind |-> "api", op |-> "listSessions", status |-> 200,
              sessions |-> Range(registry),
              active |-> {s \in Range(registry) : sessionExists(s)}]
  /\ UNCHANGED <<registry, usedIds, ttydVars, respawnList, csVars, procs,
                 foreign, authVars, gwVars, otherVars, limiterVars>>

\* --------------------------------------------------------------- tools.mjs
BUILTIN_TOOLS ==
  << [id |-> "claude", name |-> "Claude Code", command |-> "claude"],
     [id |-> "copilot", name |-> "GitHub Copilot", command |-> "copilot"],
     [id |-> "codex", name |-> "OpenAI Codex", command |-> "codex"],
     [id |-> "cline", name |-> "Cline", command |-> "cline"],
     [id |-> "kilo-code", name |-> "Kilo Code", command |-> "kilo-code"] >>

BuiltinIds == {BUILTIN_TOOLS[i].id : i \in DOMAIN BUILTIN_TOOLS}

\* a field the JSON body or the patch does not have
Undefined == "undefined"

\* the strings requests carry as tool id, name and command
ToolIdInputs == {"claude", "codex", "my-tool", "my tool"}
ToolNameInputs == {"Mine", " Mine ", "  "}
ToolCommandInputs == {"mytool", " mytool ", "mytool; id"}

\* String.prototype.trim on those strings
trim(str) ==
  CASE str = " Mine " -> "Mine"
    [] str = "  " -> ""
    [] str = " mytool " -> "mytool"
    [] OTHER -> str

\* validateToolId: /^[a-zA-Z0-9-]+$/
validateToolId(id) == id \in {"claude", "codex", "my-tool"}

\* validateCommand: no shell metacharacter, and not blank
validateCommand(command) == command \in {"mytool", " mytool "}

\* JSON.parse(readFileSync(TOOLS_FILE))
loadCustomTools == toolsFile

\* isCommandAvailable for every command of the list, on a host where the
\* commands of the set installed are on the PATH
getAvailableTools(installed) ==
  [i \in DOMAIN BUILTIN_TOOLS |->
     [id |-> BUILTIN_TOOLS[i].id, name |-> BUILTIN_TOOLS[i].name,
      command |-> BUILTIN_TOOLS[i].command, builtin |-> TRUE,
      available |-> BUILTIN_TOOLS[i].command \in installed]]
  \o [i \in DOMAIN loadCustomTools |->
       [id |-> loadCustomTools[i].id, name |-> loadCustomTools[i].name,
        command |-> loadCustomTools[i].command, builtin |-> FALSE,
        available |-> loadCustomTools[i].command \in installed]]

ToolIndex(id) ==
  IF \E i \in DOMAIN toolsFile : toolsFile[i].id = id
  THEN Min({i \in DOMAIN toolsFile : toolsFile[i].id = id})
  ELSE 0

\* the outcome of a call: the error it throws ("" when it returns) and the
\* list it leaves in tools.json
NoError == ""

\* addTool({ id, name, command })
addTool(id, name, command) ==
  IF ~validateToolId(id)
  THEN [error |-> "Invalid tool id", file |-> toolsFile]
  ELSE IF ~validateCommand(command)
  THEN [error |-> "Invalid command", file |-> toolsFile]
  ELSE IF trim(name) = ""
  THEN [error |-> "Name is required", file |-> toolsFile]
  ELSE IF id \in BuiltinIds \/ ToolIndex(id) # 0
  THEN [error |-> "already exists", file |-> toolsFile]
  ELSE [error |-> NoError,
        file |-> Append(toolsFile, [id |-> id, name |-> trim(name),
                                    command |-> trim(command)])]

\* a removeTool that looks the id up in the custom list only
removeTool_NoBuiltinCheck(id) ==
  IF ToolIndex(id) = 0
  THEN [error |-> "not found", file |-> toolsFile]
  ELSE [error |-> NoError,
        file |-> [i \in 1..(Len(toolsFile) - 1) |->
                    IF i < ToolIndex(id) THEN toolsFile[i]
                    ELSE toolsFile[i + 1]]]

\* removeTool(id)
removeTool(id) ==
  IF id \in BuiltinIds
  THEN [error |-> "Cannot remove a builtin tool", file |-> toolsFile]
  ELSE IF ToolIndex(id) = 0
  THEN [error |-> "not found", file |-> toolsFile]
  ELSE [error |-> NoError,
        file |-> [i \in 1..(Len(toolsFile) - 1) |->
                    IF i < ToolIndex(id) THEN toolsFile[i]
                    ELSE toolsFile[i + 1]]]

\* updateTool(id, { name, command })
updateTool(id, name, command) ==
  IF id \in BuiltinIds
  THEN [error |-> "Cannot modify a builtin tool", file |-> toolsFile]
  ELSE IF command # Undefined /\ ~validateCommand(command)
  THEN [error |-> "Invalid command", file |-> toolsFile]
  ELSE IF ToolIndex(id) = 0
  THEN [error |-> "not found", file |-> toolsFile]
  ELSE [error |-> NoError,
        file |-> [toolsFile EXCEPT
                    ![ToolIndex(id)].name =
                       IF name # Undefined THEN trim(name) ELSE @,
                    ![ToolIndex(id)].command =
                       IF command # Undefined THEN trim(command) ELSE @]]

\* what the handlers below leave alone
ToolFrame ==
  UNCHANGED <<registry, usedIds, ttydVars, respawnList, csVars, procs,
              foreign, authVars, alive, sockets, authFile, failedAttempts,
              loginTask, dropVars, browserVars>>

\* GET /api/tools
GetTools(tok, installed) ==
  /\ passesGate(tok)
  /\ resp' = [kind |-> "api", op |-> "getTools", status |-> 200,
              tools |-> getAvailableTools(installed)]
  /\ UNCHANGED <<apiRateLimits, hist, toolsFile>>
  /\ ToolFrame

\* POST /api/tools with a JSON body
PostTools(ip, tok, body) ==
  /\ passesGate(tok)
  /\ IF isApiRateLimited(ip)
     THEN /\ resp' = [kind |-> "api", op |-> "addTool", status |-> 429,
                      retryAfter |-> 60, ip |-> ip]
          /\ UNCHANGED <<apiRateLimits, hist, toolsFile>>
     ELSE /\ apiRateLimits' = ApiTableAfter(ip)
          /\ hist' = [HistAfterAdmit(ip) EXCEPT !.posted = "other"]
          /\ IF Undefined \in {body.id, body.name, body.command}
             THEN /\ resp' = [kind |-> "api", op |-> "addTool",
                              status |-> 400, ip |-> ip,
                              error |-> "id, name, and command are required"]
                  /\ UNCHANGED toolsFile
             ELSE LET r == addTool(body.id, body.name, body.command)
                  IN /\ resp' = [kind |-> "api", op |-> "addTool", ip |-> ip,
                                 status |-> IF r.error = NoError THEN 201
                                            ELSE 400,
                                 error |-> r.error]
                     /\ toolsFile' = r.file
  /\ ToolFrame

\* DELETE /api/tools/<id>
DeleteTools(ip, tok, id) ==
  /\ passesGate(tok)
  /\ IF isApiRateLimited(ip)
     THEN /\ resp' = [kind |-> "api", op |-> "removeTool", status |-> 429,
                      retryAfter |-> 60, ip |-> ip]
          /\ UNCHANGED <<apiRateLimits, hist, toolsFile>>
     ELSE /\ apiRateLimits' = ApiTableAfter(ip)
          /\ hist' = [HistAfterAdmit(ip) EXCEPT !.posted = "other"]
          /\ LET r == removeTool(id)
             IN /\ resp' = [kind |-> "api", op |-> "removeTool", ip |-> ip,
                            id |-> id,
                            status |-> IF r.error = NoError THEN 200
                                       ELSE IF r.error
                                                = "Cannot remove a builtin tool"
                                       THEN 400 ELSE 404,
                            error |-> r.error]
                /\ toolsFile' = r.file
  /\ ToolFrame

\* a call of updateTool (no route of the gateway calls it)
UpdateToolCall(id, name, command) ==
  /\ LET r == updateTool(id, name, command)
     IN /\ resp' = [kind |-> "call", op |-> "updateTool", id |-> id,
                    error |-> r.error]
        /\ toolsFile' = r.file
  /\ UNCHANGED <<apiRateLimits, hist>>
  /\ ToolFrame

\* ----------------------------------------------------------- drop-zone.mjs
\* hideTimer = null
NoTimer == 0

\* createDropZone({ hideDelay })
hideDelay == 2

IframeIds == {"i1", "i2"}

\* an iframe of the page: whether the page may read its document, whether the
\* document has a body, the _dragInjected mark and the listeners on its window
StartupIframes ==
  {f \in [IframeIds -> [origin : {"same", "cross"}, body : BOOLEAN,
                        injected : {FALSE}, listeners : {0}]] :
     /\ f["i1"].origin = "same"
     /\ f["i2"].origin = "cross"
     /\ ~f["i1"].body}

\* what the page's handlers leave alone
PageFrame ==
  UNCHANGED <<registry, usedIds, ttydVars, respawnList, csVars, procs,
              foreign, authVars, alive, sockets, authFile, limiterVars,
              toolsFile, browserVars>>

\* clearHideTimer: the pending timeouts after it
clearHideTimer == {t \in timers : t.id # hideTimer}

\* a resetHideTimer that leaves the earlier timeout pending
resetHideTimer_KeepsOld ==
  timers \cup {[id |-> timerSeq + 1, due |-> pageNow + hideDelay]}

\* resetHideTimer: the pending timeouts after it
resetHideTimer ==
  clearHideTimer \cup {[id |-> timerSeq + 1, due |-> pageNow + hideDelay]}

\* the hide timer is armed anew at this moment
Armed(shown) ==
  dropHist' = [armed |-> TRUE, at |-> pageNow, cancelled |-> FALSE,
               shown |-> shown]

\* the armed timer is cancelled, or the overlay hidden, by a call
Cancelled == dropHist' = [dropHist EXCEPT !.cancelled = TRUE]

\* showOverlay()
showOverlay ==
  /\ visible' = TRUE
  /\ overlayClass' = TRUE
  /\ timers' = resetHideTimer
  /\ hideTimer' = timerSeq + 1
  /\ timerSeq' = timerSeq + 1
  /\ Armed(TRUE)

\* hideOverlay()
hideOverlay ==
  /\ visible' = FALSE
  /\ overlayClass' = FALSE
  /\ timers' = clearHideTimer
  /\ hideTimer' = NoTimer
  /\ Cancelled
  /\ UNCHANGED timerSeq

ShowOverlay ==
  /\ showOverlay
  /\ resp' = [kind |-> "page", op |-> "showOverlay"]
  /\ UNCHANGED <<pageNow, attached, onFilesCalls, iframes>>
  /\ PageFrame

HideOverlay ==
  /\ hideOverlay
  /\ resp' = [kind |-> "page", op |-> "hideOverlay"]
  /\ UNCHANGED <<pageNow, attached, onFilesCalls, iframes>>
  /\ PageFrame

\* resetHideTimer(), also the overlay's dragover listener
ResetHideTimer ==
  /\ timers' = resetHideTimer
  /\ hideTimer' = timerSeq + 1
  /\ timerSeq' = timerSeq + 1
  /\ Armed(visible)
  /\ resp' = [kind |-> "page", op |-> "resetHideTimer"]
  /\ UNCHANGED <<visible, overlayClass, pageNow, attached, onFilesCalls,
                 iframes>>
  /\ PageFrame

\* clearHideTimer()
ClearHideTimer ==
  /\ timers' = clearHideTimer
  /\ hideTimer' = NoTimer
  /\ Cancelled
  /\ resp' = [kind |-> "page", op |-> "clearHideTimer"]
  /\ UNCHANGED <<visible, overlayClass, timerSeq, pageNow, attached,
                 onFilesCalls, iframes>>
  /\ PageFrame

\* the timeout t is due: the page runs hideOverlay
TimerFires(t) ==
  /\ t \in timers
  /\ t.due <= pageNow
  /\ visible' = FALSE
  /\ overlayClass' = FALSE
  /\ timers' = {x \in timers \ {t} : x.id # hideTimer}
  /\ hideTimer' = NoTimer
  /\ resp' = [kind |-> "page", op |-> "timeout", id |-> t.id]
  /\ UNCHANGED <<timerSeq, pageNow, attached, onFilesCalls, iframes,
                 dropHist>>
  /\ PageFrame

\* time passes on the page; a timeout that is due runs first
PageTick ==
  /\ \A t \in timers : t.due > pageNow
  /\ pageNow' = pageNow + 1
  /\ UNCHANGED <<visible, overlayClass, hideTimer, timers, timerSeq, attached,
                 onFilesCalls, iframes, dropHist, resp>>
  /\ PageFrame

\* a drop event: dataTransfer is missing, or holds a list of files
DropEvents ==
  [dataTransfer : {"null"}, files : {<< >>}]
  \cup [dataTransfer : {"object"}, files : {<< >>, <<"f1">>, <<"f1", "f2">>}]

\* a handleDrop that passes on whatever file list there is
onFilesArgs_AnyList(e) ==
  IF e.dataTransfer # "null" THEN <<e.files>> ELSE << >>

\* handleDrop: the calls of onFiles it makes
onFilesArgs(e) ==
  IF e.dataTransfer # "null" /\ Len(e.files) > 0 THEN <<e.files>> ELSE << >>

\* handleDrop(e), also the overlay's drop listener
HandleDrop(e) ==
  /\ hideOverlay
  /\ onFilesCalls' = onFilesCalls \o onFilesArgs(e)
  /\ resp' = [kind |-> "page", op |-> "handleDrop", prevented |-> TRUE,
              event |-> e]
  /\ UNCHANGED <<pageNow, attached, iframes>>
  /\ PageFrame

\* a message event: no data, or data with a type and an event
NoData == [type |-> "none", event |-> "none"]

Messages ==
  {NoData}
  \cup [type : {"iframe-drag", "resize"},
        event : {"dragenter", "dragleave", "drop"}]

\* a handleMessage that shows the overlay on every message of an iframe
handleMessageShows_AnyEvent(e) == e # NoData /\ e.type = "iframe-drag"

\* handleMessage: whether it calls showOverlay
handleMessageShows(e) ==
  e # NoData /\ e.type = "iframe-drag" /\ e.event = "dragenter"

\* handleMessage(e)
HandleMessage(e) ==
  /\ IF handleMessageShows(e)
     THEN showOverlay
     ELSE UNCHANGED <<visible, overlayClass, hideTimer, timers, timerSeq,
                      dropHist>>
  /\ resp' = [kind |-> "page", op |-> "handleMessage", data |-> e]
  /\ UNCHANGED <<pageNow, attached, onFilesCalls, iframes>>
  /\ PageFrame

\* an injectIframe that does not look at the mark
injectIframe_IgnoresMark(f) ==
  iframes[f].origin = "same" /\ iframes[f].body

\* injectIframe(iframe): whether it installs the listeners and returns true
injectIframe(f) ==
  /\ ~iframes[f].injected
  /\ iframes[f].origin = "same"
  /\ iframes[f].body

InjectIframe(f) ==
  /\ iframes' = IF injectIframe(f)
                THEN [iframes EXCEPT ![f].injected = TRUE,
                                     ![f].listeners = @ + 4]
                ELSE iframes
  /\ resp' = [kind |-> "page", op |-> "injectIframe", iframe |-> f,
              returned |-> injectIframe(f)]
  /\ UNCHANGED <<visible, overlayClass, hideTimer, timers, timerSeq, pageNow,
                 attached, onFilesCalls, dropHist>>
  /\ PageFrame

\* the document of an iframe gets its body
IframeBodyReady(f) ==
  /\ ~iframes[f].body
  /\ iframes' = [iframes EXCEPT ![f].body = TRUE]
  /\ UNCHANGED <<visible, overlayClass, hideTimer, timers, timerSeq, pageNow,
                 attached, onFilesCalls, dropHist, resp>>
  /\ PageFrame

\* attach(doc, win), on a page where the listeners are not installed
Attach ==
  /\ ~attached
  /\ attached' = TRUE
  /\ resp' = [kind |-> "page", op |-> "attach"]
  /\ UNCHANGED <<visible, overlayClass, hideTimer, timers, timerSeq, pageNow,
                 onFilesCalls, iframes, dropHist>>
  /\ PageFrame

\* the function attach returned
Detach ==
  /\ attached
  /\ attached' = FALSE
  /\ timers' = clearHideTimer
  /\ hideTimer' = NoTimer
  /\ Cancelled
  /\ resp' = [kind |-> "page", op |-> "detach"]
  /\ UNCHANGED <<visible, overlayClass, timerSeq, pageNow, onFilesCalls,
                 iframes>>
  /\ PageFrame

\* onDocDragEnter
DocDragEnter ==
  /\ attached
  /\ showOverlay
  /\ resp' = [kind |-> "page", op |-> "docDragEnter", prevented |-> TRUE]
  /\ UNCHANGED <<pageNow, attached, onFilesCalls, iframes>>
  /\ PageFrame

\* onOverlayDragLeave: relatedTarget tells whether the drag went on to a node
\* of the page
OverlayDragLeave(relatedTarget) ==
  /\ attached
  /\ IF ~relatedTarget
     THEN hideOverlay
     ELSE UNCHANGED <<visible, overlayClass, hideTimer, timers, timerSeq,
                      dropHist>>
  /\ resp' = [kind |-> "page", op |-> "overlayDragLeave", prevented |-> TRUE]
  /\ UNCHANGED <<pageNow, attached, onFilesCalls, iframes>>
  /\ PageFrame

\* ------------------------------------------- router: authentication gate
\* the routes behind the gate, by what they serve
ProtectedRoutes ==
  {"sessions", "tools", "code-server", "browse", "diff", "folder"}

\* a request to a protected route that the gate turns away: 302 to /login
GateRedirect(route, tok) ==
  /\ ~passesGate(tok)
  /\ resp' = [kind |-> "gate", route |-> route, tok |-> tok,
              status |-> "302", expired |-> ExpiredCookie(tok)]
  /\ authSessions' = AuthTableAfter(tok)
  /\ authFile' = AuthFileAfter(tok)
  /\ UNCHANGED <<registry, usedIds, ttydVars, respawnList, csVars, procs,
                 foreign, now, alive, sockets, limiterVars, otherVars>>

\* ------------------------------------------------- auth.mjs: restart
\* a loader that takes every entry of the file, expired or not
loadAuthSessions_KeepsAll == authFile

\* loadAuthSessions at Date.now() = now: the entries of auth-sessions.json
\* whose expiry is later than now
loadAuthSessions ==
  [t \in {x \in DOMAIN authFile : authFile[x] > now} |-> authFile[t]]

\* The gateway process is stopped and started again, here one that has
\* launched no backend and whose registry is as it loaded it: the modules'
\* tables are built anew, the auth-session table from its file.
GatewayRestart ==
  /\ procs = << >>
  /\ respawnList = registry
  /\ authSessions' = loadAuthSessions
  /\ sessionProcesses' = EmptyMap
  /\ ttydAllocated' = {}
  /\ LET rr == RespawnRun(1, [s \in SessionIds |-> IdleTask], EmptyMap, {})
     IN /\ ttydTask' = rr.tasks
        /\ respawnIdx' = rr.idx
  /\ codeServerProcesses' = EmptyMap
  /\ csAllocated' = {}
  /\ csTask' = [r \in CsSlots |-> IdleCsTask]
  /\ failedAttempts' = << >>
  /\ loginTask' = [ip \in Ips |-> 0]
  /\ apiRateLimits' = << >>
  /\ hist' = HistInit
  /\ alive' = TRUE
  /\ resp' = [kind |-> "restart"]
  /\ UNCHANGED <<registry, usedIds, respawnList, procs, foreign, now, sockets,
                 authFile, otherVars>>

\* ------------------------------------- proxy.mjs: the upstream handshake
\* A string is the sequence of its pieces; carriage return and line feed are
\* pieces of their own.
CR == "\\r"
LF == "\\n"

\* a replace that takes the carriage returns out and leaves the line feeds
stripCrLf_OnlyCR(str) == SelectSeq(str, LAMBDA c : c # CR)

\* str.replace(/[\r\n]/g, '')
stripCrLf(str) == SelectSeq(str, LAMBDA c : c \notin {CR, LF})

\* String.prototype.toLowerCase on the pieces header names are made of
toLowerCase(str) ==
  [i \in DOMAIN str |->
     CASE str[i] \in {"Host", "HOST"} -> "host"
       [] str[i] = "Origin" -> "origin"
       [] str[i] = "Cookie" -> "cookie"
       [] OTHER -> str[i]]

\* the loop over req.rawHeaders (name, value, name, value, ...) from index i
RECURSIVE headerLines(_, _, _)
headerLines(rawHeaders, i, port) ==
  IF i > Len(rawHeaders) THEN << >>
  ELSE LET name == stripCrLf(rawHeaders[i])
           lower == toLowerCase(name)
           value == IF lower = <<"host">>
                    THEN <<"localhost:", ToString(port)>>
                    ELSE IF lower = <<"origin">>
                    THEN <<"http://localhost:", ToString(port)>>
                    ELSE stripCrLf(rawHeaders[i + 1])
       IN name \o <<": ">> \o value \o <<CR, LF>>
          \o headerLines(rawHeaders, i + 2, port)

\* what the connect callback writes to the backend
httpReq(method, forwardUrl, httpVersion, rawHeaders, port) ==
  <<method, " ">> \o stripCrLf(forwardUrl) \o <<" HTTP/", httpVersion, CR, LF>>
  \o headerLines(rawHeaders, 1, port) \o <<CR, LF>>

\* the request targets and the headers upgrade requests arrive with
UpgradeTargets == {<<"/ws">>, <<"/ws", CR, LF, "Evil: 1">>}

UpgradeHeaders ==
  { <<<<"Host">>, <<"gateway.example">>>>,
    <<<<"host">>, <<"gateway.example", CR, LF, "Evil: 1">>>>,
    <<<<"Origin">>, <<"https://gateway.example">>>>,
    <<<<"Cookie">>, <<"session_token=t1">>>>,
    <<<<"X-A", LF, "X-B">>, <<"1", LF, "2">>>>,
    <<<<"Upgrade">>, <<"websocket", CR>>>> }

RawHeaderLists ==
  UNION {[1..n -> UpgradeHeaders] : n \in 0..MaxHeaders}

\* rawHeaders of a request with the headers hs, in their order
RECURSIVE rawHeadersOf(_)
rawHeadersOf(hs) ==
  IF hs = << >> THEN << >>
  ELSE <<Head(hs)[1], Head(hs)[2]>> \o rawHeadersOf(Tail(hs))

\* net.connect's callback for an upgrade that was let through to port: the
\* request is written to the backend
WriteUpgradeRequest(forwardUrl, hs, port) ==
  /\ resp' = [kind |-> "upstream", method |-> "GET", url |-> forwardUrl,
              rawHeaders |-> rawHeadersOf(hs), port |-> port,
              out |-> httpReq("GET", forwardUrl, "1.1", rawHeadersOf(hs), port)]
  /\ UNCHANGED <<registry, usedIds, ttydVars, respawnList, csVars, procs,
                 foreign, authVars, gwVars, otherVars, limiterVars>>

\* ------------------------------------------------------------- startup
\* what sessions.json and auth-sessions.json may hold when the gateway starts
StartupRegistries == {<< >>, <<"s1">>, <<"s1", "s2">>}

StartupAuthSessions == {EmptyMap, [t \in {"t1"} |-> SESSION_EXPIRY]}

\* The state once the module bodies and the server.listen callback have run
\* to respawnAllSessions' first await.
Init ==
  /\ registry \in StartupRegistries
  /\ usedIds = Range(registry)
  /\ respawnList = registry
  /\ sessionProcesses = EmptyMap
  /\ ttydAllocated = {}
  /\ LET rr == RespawnRun(1, [s \in SessionIds |-> IdleTask], EmptyMap, {})
     IN /\ ttydTask = rr.tasks
        /\ respawnIdx = rr.idx
  /\ codeServerProcesses = EmptyMap
  /\ csAllocated = {}
  /\ csTask = [r \in CsSlots |-> IdleCsTask]
  /\ procs = << >>
  /\ foreign = {}
  /\ authSessions \in StartupAuthSessions
  /\ now = 0
  /\ resp = NoResp
  /\ alive = TRUE
  /\ sockets = {}        \* no dtach session is left from an earlier run
  /\ authFile = authSessions
  /\ failedAttempts = << >>
  /\ loginTask = [ip \in Ips |-> 0]
  /\ apiRateLimits = << >>
  /\ hist = HistInit
  /\ toolsFile = << >>
  /\ visible = FALSE
  /\ overlayClass = FALSE
  /\ hideTimer = NoTimer
  /\ timers = {}
  /\ timerSeq = 0
  /\ pageNow = 0
  /\ attached = FALSE
  /\ onFilesCalls = << >>
  /\ iframes \in StartupIframes
  /\ dropHist = [armed |-> FALSE, at |-> 0, cancelled |-> FALSE,
                 shown |-> FALSE]
  /\ csCookie = NoFolder
  /\ editorPages = {}

\* the environment of the child processes
EnvNext ==
  \/ \E i \in DOMAIN procs : ProcListen(i)
  \/ \E i \in DOMAIN procs : ProcExit(i)
  \/ \E i \in DOMAIN procs : ExitEvent(i)

TtydNext ==
  \/ \E s \in SessionIds : TtydProbeReturn(s)
  \/ \E t \in Tokens : CreateSession(t)
  \/ \E t \in Tokens, s \in SessionIds : DeleteSession(t, s)

CsNext ==
  \/ \E t \in Tokens, f \in Folders : StartCodeServer(t, f)
  \/ \E r \in CsSlots : CsProbeReturn(r)
  \/ \E r \in CsSlots : CsWaitReturn(r)
  \/ \E t \in Tokens, f \in Folders : StopCodeServer(t, f)

ForeignNext ==
  \/ \E p \in ForeignPorts : ForeignStart(p)
  \/ \E p \in ForeignPorts : ForeignStop(p)

\* The process lifecycle manager of both kinds, driven by the clients whose
\* auth session the gateway loaded at startup, on a host where nothing else
\* listens on the two port ranges.
Next ==
  \/ TtydNext
  \/ CsNext
  \/ EnvNext

Spec == Init /\ [][Next]_vars

\* The same manager in a gateway that restarted with sessions to recover.
InitRestart == Init /\ registry # << >>

SpecRestart == InitRestart /\ [][Next]_vars

\* The terminal backends alone, on a host where other programs come and go
\* on the ports of the range.  Node runs every continuation whose await has
\* settled, and every probe settles: weak fairness of the probe's return.
RespawnNext ==
  \/ TtydNext
  \/ EnvNext
  \/ ForeignNext

SpecRespawn ==
  /\ Init
  /\ [][RespawnNext]_vars
  /\ \A s \in SessionIds : WF_vars(TtydProbeReturn(s))

\* The authentication boundary: the sessions of the persisted registry and
\* their backends, the auth-session table over time, and the requests.
GateNext ==
  \/ \E s \in SessionIds : TtydProbeReturn(s)
  \/ \E t \in Tokens, s \in SessionIds : DeleteSession(t, s)
  \/ EnvNext
  \/ \E req \in Requests : WsUpgrade(req)
  \/ \E req \in Requests : HttpRequest(req)
  \/ NoLoginInFlight /\ LoginStart(Owner)
  \/ LoginOk(Owner)
  \/ \E t \in Tokens \cup {NoToken} : Logout(t)
  \/ Tick

SpecGate == Init /\ [][GateNext]_vars

\* The lifecycle manager of both kinds together with the proxy.
ProxyNext ==
  \/ Next
  \/ \E req \in Requests : WsUpgrade(req)
  \/ \E req \in Requests : HttpRequest(req)

SpecProxy == Init /\ [][ProxyNext]_vars


\* The gateway as a process: it serves requests, well-formed and not, for as
\* long as it runs.
FaultNext ==
  \/ alive /\ \E s \in SessionIds : TtydProbeReturn(s)
  \/ alive /\ EnvNext
  \/ alive /\ \E req \in Requests : WsUpgrade(req)
  \/ alive /\ \E req \in Requests : HttpRequest(req)
  \/ \E req \in MalformedRequests : WsUpgradeMalformed(req)
  \/ \E req \in MalformedRequests : HttpRequestMalformed(req)
  \/ alive /\ \E t \in Tokens \cup {NoToken} : Logout(t)
  \/ alive /\ Tick

SpecFault == Init /\ [][FaultNext]_vars


\* A gateway that starts with no session in its registry.
InitNoSessions == Init /\ registry = << >>

\* The login form within one minute: the owner's address posts credentials,
\* right and wrong, and other addresses post wrong ones.  Each address may
\* fail so many times in a row.
FailureBudget(ip) == IF ip = Owner THEN MaxFailures ELSE MaxStrangerFailures

LoginNext ==
  \/ \E ip \in Ips : LoginStart(ip)
  \/ LoginOk(Owner)
  \/ \E ip \in Ips : hist.streak[ip] < FailureBudget(ip) /\ LoginFail(ip)
  \/ \E t \in Tokens : Logout(t)

SpecLogin == InitNoSessions /\ [][LoginNext]_vars


\* The login form over a long time: one address keeps posting credentials,
\* waits its lockouts out, and the sweep timer fires now and then.
LockoutNext ==
  \/ LoginStart(Owner)
  \/ LoginOk(Owner)
  \/ LoginFail(Owner)
  \/ \E t \in Tokens : Logout(t)
  \/ \E t \in WakeTimes : TimePasses(t)
  \/ SweepFailedAttempts

SpecLockout == InitNoSessions /\ [][LockoutNext]_vars


\* The write API under load: three addresses post to /api/sessions with the
\* owner's cookie (bodies that do not parse, so that nothing but the throttle
\* is at work), the clock runs and the throttle's sweep timer fires.
WriteBudget(ip) == IF ip = Owner THEN MaxWrites ELSE MaxStrangerWrites

ThrottleNext ==
  \/ \E ip \in Ips, t \in Tokens, body \in {b \in Bodies : ~b.parses} :
       hist.winCount[ip] < WriteBudget(ip) /\ PostSessions(ip, t, body)
  \/ LoginStart(Owner)
  \/ LoginOk(Owner)
  \/ Tick
  \/ SweepApiRateLimits

SpecThrottle == InitNoSessions /\ [][ThrottleNext]_vars

\* Both rate-limit tables within one minute: three addresses fail logins,
\* one request at a time, and make write requests with the owner's cookie.
TablesNext ==
  \/ \E ip \in Ips : NoLoginInFlight /\ LoginStart(ip)
  \/ \E ip \in Ips : hist.streak[ip] < FailureBudget(ip) /\ LoginFail(ip)
  \/ \E ip \in Ips, t \in Tokens, body \in {b \in Bodies : ~b.parses} :
       hist.winCount[ip] < WriteBudget(ip) /\ PostSessions(ip, t, body)

SpecTables == InitNoSessions /\ [][TablesNext]_vars


\* The terminal sessions as the dashboard sees them: sessions are created and
\* deleted, browsers open terminals, programs end, and the list is fetched.
ListingNext ==
  \/ TtydNext
  \/ EnvNext
  \/ \E s \in SessionIds : ClientAttach(s)
  \/ \E s \in SessionIds : ToolExits(s)
  \/ \E t \in Tokens : ListSessions(t)

SpecListing == Init /\ [][ListingNext]_vars


\* Session creation with bodies of every shape, from the owner's address,
\* next to the backends' own events and deletions.
CreateNext ==
  \/ \E t \in Tokens, body \in Bodies : PostSessions(Owner, t, body)
  \/ \E s \in SessionIds : TtydProbeReturn(s)
  \/ \E t \in Tokens, s \in SessionIds : DeleteSession(t, s)
  \/ EnvNext

SpecCreate == Init /\ [][CreateNext]_vars

\* The gateway answering GET requests while backends of both kinds start and
\* stop.
HeadersNext ==
  \/ \E req \in PageRequests : hist.requests < MaxRequests /\ HandleRequest(req)
  \/ \E s \in SessionIds : TtydProbeReturn(s)
  \/ \E t \in Tokens : StartCodeServer(t, "fA")
  \/ \E r \in CsSlots : CsProbeReturn(r)
  \/ \E r \in CsSlots : CsWaitReturn(r)
  \/ \E i \in DOMAIN procs : ProcListen(i)

\* one session is on file and the owner's login is still valid
InitHeaders ==
  Init /\ registry = <<"s1">> /\ authSessions # EmptyMap

SpecHeaders == InitHeaders /\ [][HeadersNext]_vars

\* The tool list: the owner adds, removes and lists tools within one throttle
\* window and the window passes; updateTool is called as the module exports it.
ToolBodies ==
  [id : {"claude", "my-tool", "my tool", Undefined},
   name : {"Mine", "  "}, command : {" mytool ", "mytool; id"}]

ToolsNext ==
  \/ \E t \in Tokens, b \in ToolBodies : PostTools(Owner, t, b)
  \/ \E t \in Tokens, id \in ToolIdInputs : DeleteTools(Owner, t, id)
  \/ \E id \in ToolIdInputs, n \in {"Mine", "  ", Undefined},
         c \in {"mytool", "mytool; id", Undefined} : UpdateToolCall(id, n, c)
  \/ \E t \in Tokens, inst \in {{}, {"claude", "mytool"}} : GetTools(t, inst)
  \/ Tick
  \/ SweepApiRateLimits

SpecTools == InitNoSessions /\ [][ToolsNext]_vars

\* The dashboard page with its drop zone: the functions createDropZone
\* returns are called, events arrive, timeouts run and time passes.
DropNext ==
  \/ timerSeq < MaxTimers /\ ShowOverlay
  \/ HideOverlay
  \/ timerSeq < MaxTimers /\ ResetHideTimer
  \/ ClearHideTimer
  \/ \E t \in timers : TimerFires(t)
  \/ pageNow < MaxPageClock /\ PageTick
  \/ \E e \in DropEvents : Len(onFilesCalls) < MaxDrops /\ HandleDrop(e)
  \/ \E e \in Messages : timerSeq < MaxTimers /\ HandleMessage(e)
  \/ \E f \in IframeIds : InjectIframe(f)
  \/ \E f \in IframeIds : IframeBodyReady(f)
  \/ Attach
  \/ Detach
  \/ timerSeq < MaxTimers /\ DocDragEnter
  \/ \E r \in BOOLEAN : OverlayDragLeave(r)

\* the page is open in a browser; nobody is logged in at the gateway yet
InitPage == InitNoSessions /\ authSessions = EmptyMap

SpecDropZone == InitPage /\ [][DropNext]_vars

\* The lifecycle manager on a host where a launch can fail: the backend's
\* binary or wrapper is missing, or the editor's data directory cannot be
\* created.
LaunchNext ==
  \/ \E s \in SessionIds : TtydProbeReturn(s)
  \/ \E s \in SessionIds : TtydLaunchRaises(s)
  \/ \E t \in Tokens : CreateSession(t)
  \/ \E t \in Tokens, f \in Folders : StartCodeServer(t, f)
  \/ \E r \in CsSlots : CsProbeReturn(r)
  \/ \E r \in CsSlots : CsLaunchRaises(r)
  \/ \E r \in CsSlots : CsWaitReturn(r)
  \/ EnvNext

SpecLaunch == Init /\ [][LaunchNext]_vars

\* The gateway behind its authentication gate: clients with and without a
\* valid cookie delete sessions, add tools and start and stop editors while
\* the login of the one who has it runs out.
GateToolBodies == {b \in ToolBodies : b.id = "my-tool" /\ b.name = "Mine"}

ProtectedNext ==
  \/ \E s \in SessionIds : TtydProbeReturn(s)
  \/ \E t \in Tokens \cup {NoToken}, s \in SessionIds : DeleteSession(t, s)
  \/ \E t \in Tokens \cup {NoToken}, b \in GateToolBodies : PostTools(Owner, t, b)
  \/ \E t \in Tokens \cup {NoToken} : StartCodeServer(t, "fA")
  \/ \E t \in Tokens \cup {NoToken} : StopCodeServer(t, "fA")
  \/ \E r \in CsSlots : CsProbeReturn(r)
  \/ \E r \in CsSlots : CsWaitReturn(r)
  \/ \E route \in ProtectedRoutes, t \in Tokens \cup {NoToken} :
       GateRedirect(route, t)
  \/ Tick

SpecProtected == InitHeaders /\ [][ProtectedNext]_vars

\* One browser with the owner's cookie starts editors for two folders, opens
\* their pages, and the pages load their assets and open their sockets.
EditorsNext ==
  \/ \E t \in Tokens, f \in Folders : StartCodeServer(t, f)
  \/ \E r \in CsSlots : CsProbeReturn(r)
  \/ \E r \in CsSlots : CsWaitReturn(r)
  \/ \E i \in DOMAIN procs : ProcListen(i)
  \/ \E t \in Tokens, f \in Folders : OpenEditor(t, f)
  \/ \E t \in Tokens, f \in Folders, ws \in BOOLEAN :
       EditorPageRequest(t, f, ws)

\* no session is on file and the owner's login is still valid
InitEditors == InitNoSessions /\ authSessions # EmptyMap

SpecEditors == InitEditors /\ [][EditorsNext]_vars

\* The auth-session table and its file: the owner logs in and out, presents
\* the cookie, time passes and the gateway is restarted.
PersistNext ==
  \/ NoLoginInFlight /\ LoginStart(Owner)
  \/ LoginOk(Owner)
  \/ \E t \in Tokens \cup {NoToken} : Logout(t)
  \/ \E req \in {r \in Requests : r.route = "other"} : HttpRequest(req)
  \/ Tick
  \/ GatewayRestart

SpecPersist == InitNoSessions /\ [][PersistNext]_vars

\* The login-failure table left to its sweep: two addresses fail logins in
\* the first minutes and never log in, then only time passes.  setInterval
\* keeps firing the sweep and the clock keeps running: weak fairness of both.
SweepNext ==
  \/ \E ip \in {Owner, "b"} : now <= 1 /\ NoLoginInFlight /\ LoginStart(ip)
  \/ \E ip \in {Owner, "b"} :
       hist.streak[ip] < FailureBudget(ip) /\ LoginFail(ip)
  \/ Tick
  \/ \E t \in WakeTimes : TimePasses(t)
  \/ SweepFailedAttempts

SpecSweep ==
  /\ InitNoSessions
  /\ [][SweepNext]_vars
  /\ WF_vars(SweepFailedAttempts)
  /\ WF_vars(Tick)
  /\ WF_vars(\E t \in WakeTimes : TimePasses(t))
  /\ \A ip \in {Owner, "b"} : WF_vars(LoginFail(ip))

\* The handshake the gateway writes to a backend, for upgrade requests of
\* every shape.
HandshakeNext ==
  \E u \in UpgradeTargets, hs \in RawHeaderLists, p \in TtydPorts \cup CsPorts :
    WriteUpgradeRequest(u, hs, p)

SpecHandshake == InitNoSessions /\ [][HandshakeNext]_vars

\* ================================================================ claims
\* A backend process that is running and has not been told to exit.
LiveBackend(i) ==
  /\ procs[i].st \in {"starting", "listening"}
  /\ ~procs[i].sig

\* Process i is the one the handle of its session or folder refers to.
TrackedBackend(i) ==
  IF procs[i].kind = "ttyd"
  THEN /\ procs[i].key \in DOMAIN sessionProcesses
       /\ sessionProcesses[procs[i].key].process = i
  ELSE /\ procs[i].key \in DOMAIN codeServerProcesses
       /\ codeServerProcesses[procs[i].key].process = i

\* C1: under any interleaving of concurrent spawns, no two entries of the
\* terminal handle map hold the same port, and no two entries of the editor
\* handle map hold the same port.
C1_DistinctPorts ==
  /\ \A a, b \in DOMAIN sessionProcesses :
       a # b => sessionProcesses[a].port # sessionProcesses[b].port
  /\ \A f, g \in DOMAIN codeServerProcesses :
       f # g => codeServerProcesses[f].port # codeServerProcesses[g].port

\* C2: a plain-HTTP request to /terminal/<id>/* that carries no valid session
\* cookie is refused and is not forwarded to a terminal backend.
C2_TerminalHttpNeedsCookie ==
  (resp.kind = "http" /\ resp.route = "terminal" /\ ~resp.authed)
    => (resp.status # "proxied" /\ resp.port = NoPort)

\* C3: a WebSocket upgrade to /terminal/<id> whose session cookie is missing,
\* unknown or expired is answered 401 and no connection to a backend port is
\* opened, whether or not <id> has a handle.
C3_UpgradeNeedsCookie ==
  (resp.kind = "ws" /\ resp.route = "terminal" /\ ~resp.authed)
    => (resp.status = "401" /\ resp.port = NoPort)

\* an upgrade with an expired or logged-out cookie, to a session that has a
\* handle, was answered 401
C3_Witness ==
  /\ resp.kind = "ws"
  /\ resp.route = "terminal"
  /\ resp.tok \in Tokens
  /\ ~resp.authed
  /\ resp.key \in DOMAIN sessionProcesses
  /\ resp.status = "401"

\* C4: a session whose DELETE was answered 200 is absent from the registry
\* and has no entry in the terminal handle map (so its port resolves to
\* nothing) in every later state.
C4_DeletedStaysGone ==
  \A id \in usedIds \ Range(registry) :
    id \notin DOMAIN sessionProcesses /\ getSessionPort(id) = NoPort

\* C5: at most one live editor backend process exists per folder.
C5_OneEditorPerFolder ==
  \A i, j \in DOMAIN procs :
    (/\ procs[i].kind = "cs" /\ procs[j].kind = "cs"
     /\ procs[i].key = procs[j].key
     /\ LiveBackend(i) /\ LiveBackend(j)) => i = j

\* C6: the exit event of a process that killSessionTtyd or stopCodeServer
\* has killed leaves the handle maps and the allocation sets unchanged.
C6_LateExitChangesNothing ==
  [][\A i \in DOMAIN procs :
       (procs[i].sig /\ ExitEvent(i))
         => UNCHANGED <<sessionProcesses, ttydAllocated,
                        codeServerProcesses, csAllocated>>]_vars

\* C7: the exit event of a tracked backend that exited on its own removes its
\* handle and releases its port, which the allocator's scan then stops at
\* again; the registry keeps the session.
C7_OwnExitCleansUp ==
  [][\A i \in DOMAIN procs :
       (ExitEvent(i) /\ ~procs[i].sig /\ TrackedBackend(i))
         => /\ registry' = registry
            /\ IF procs[i].kind = "ttyd"
               THEN /\ procs[i].key \notin DOMAIN sessionProcesses'
                    /\ procs[i].port \notin ttydAllocated'
                    /\ ScanFrom(ttydAllocated', procs[i].port,
                                TTYD_PORT_RANGE_END) = procs[i].port
               ELSE /\ procs[i].key \notin DOMAIN codeServerProcesses'
                    /\ procs[i].port \notin csAllocated'
                    /\ ScanFrom(csAllocated', procs[i].port,
                                CS_PORT_RANGE_END) = procs[i].port]_vars

\* a terminal backend and an editor backend have each exited on their own and
\* had their exit event handled; the terminal's session is still registered
C7_Witness ==
  \E i, j \in DOMAIN procs :
    /\ procs[i].kind = "ttyd" /\ procs[i].st = "reaped" /\ ~procs[i].sig
    /\ procs[i].key \in Range(registry)
    /\ procs[i].key \notin DOMAIN sessionProcesses
    /\ procs[i].port \notin ttydAllocated
    /\ procs[j].kind = "cs" /\ procs[j].st = "reaped" /\ ~procs[j].sig
    /\ procs[j].key \notin DOMAIN codeServerProcesses
    /\ procs[j].port \notin csAllocated

\* C8 as stated: when respawnAllSessions finishes, every session of the
\* startup registry whose spawn did not raise has a handle.
C8_HandleAtFinish ==
  [][(~RespawnDone /\ RespawnDone')
       => \A s \in Range(respawnList) :
            ttydTask'[s].pc = "raised" \/ s \in DOMAIN sessionProcesses']_vars

\* a session of the startup registry has lost the handle its spawn gave it
HandleGoneSince(s) ==
  \/ s \notin Range(registry)
  \/ \E i \in DOMAIN procs :
       procs[i].kind = "ttyd" /\ procs[i].key = s /\ procs[i].st = "reaped"

\* C8: respawnAllSessions eventually finishes; from then on every session of
\* the startup registry has had its spawn attempted, and each one whose spawn
\* did not raise has a handle unless its process exited or the session was
\* deleted in the meantime.
C8_RespawnFinishes ==
  /\ <>RespawnDone
  /\ [](RespawnDone =>
          \A s \in Range(respawnList) :
            /\ ttydTask[s].pc \in {"done", "raised"}
            /\ \/ ttydTask[s].pc = "raised"
               \/ s \in DOMAIN sessionProcesses
               \/ HandleGoneSince(s))

\* the recovery has finished, an earlier session's spawn raised and a later
\* session's spawn gave it a handle
C8_Witness ==
  /\ RespawnDone
  /\ \E i, j \in DOMAIN respawnList :
       /\ i < j
       /\ ttydTask[respawnList[i]].pc = "raised"
       /\ ttydTask[respawnList[j]].pc = "done"
       /\ respawnList[j] \in DOMAIN sessionProcesses

\* C9: spawnSessionTtyd for a session that has a handle returns that handle's
\* port without suspending, and POST /api/code-server/start for a folder that
\* has a handle answers that handle's port and probes, reserves and launches
\* nothing.
C9_ExistingHandleReused ==
  [][/\ \A s \in DOMAIN sessionProcesses :
          SpawnTtydStart(s, sessionProcesses, ttydAllocated)
            = [pc |-> "done", port |-> sessionProcesses[s].port]
     /\ \A t \in Tokens, f \in DOMAIN codeServerProcesses :
          StartCodeServer(t, f)
            => /\ resp'.kind = "api"
               /\ resp'.op = "startCodeServer"
               /\ resp'.status = 200
               /\ resp'.port = codeServerProcesses[f].port
               /\ UNCHANGED <<codeServerProcesses, csAllocated, csTask, procs,
                              sessionProcesses, ttydAllocated>>]_vars

\* a start request was answered with the port of a handle whose process has
\* not begun to listen: the answer of the early return
C9_Witness ==
  /\ resp.kind = "api"
  /\ resp.op = "startCodeServer"
  /\ resp.status = 200
  /\ ~Listening(resp.port)
  /\ \E f \in DOMAIN codeServerProcesses :
       /\ codeServerProcesses[f].port = resp.port
       /\ procs[codeServerProcesses[f].process].st = "starting"

\* C10: an authenticated upgrade connects to the port of the handle its path
\* (or cs_folder cookie) names, where no other session's or folder's backend
\* listens; with no such handle it is answered 404 and nothing is connected.
C10_ConnectsOwnBackend ==
  (resp.kind = "ws" /\ resp.authed) =>
    LET kind == IF resp.route = "terminal" THEN "ttyd" ELSE "cs"
        key == IF resp.route = "other" THEN resp.csf ELSE resp.key
        handles == IF resp.route = "terminal" THEN sessionProcesses
                   ELSE codeServerProcesses
    IN IF key \in DOMAIN handles
       THEN /\ resp.status = "connect"
            /\ resp.port = handles[key].port
            /\ \A i \in DOMAIN procs :
                 (procs[i].st = "listening" /\ procs[i].port = resp.port)
                   => (procs[i].kind = kind /\ procs[i].key = key)
       ELSE resp.status = "404" /\ resp.port = NoPort


\* C11: no incoming request terminates the gateway process: whatever is
\* raised while an HTTP request or a WebSocket upgrade is handled, the
\* gateway is still running afterwards.
C11_GatewayKeepsServing == alive


\* C12: once an address has failed 5 logins in a row, until the lockout
\* those failures earned has expired no POST /login from it gets past the
\* lockout check to have its credentials verified, and a POST /login that is
\* answered 429 carries Retry-After: 60 and leaves the failure table as it
\* was.
C12_LockedOutRejected ==
  [][(\A ip \in Ips :
        (hist.streak[ip] >= 5 /\ now < hist.lockEnd[ip])
          => loginTask'[ip] <= loginTask[ip])
     /\ ((resp'.kind = "login" /\ resp'.status = "429")
          => (resp'.retryAfter = 60 /\ failedAttempts' = failedAttempts))
    ]_vars


\* C13: a successful login from an address removes that address's entry of
\* the failure table, and an entry never counts more than the failures the
\* address has had since its last successful login; so an address is locked
\* out only after 5 failures that came after that login.
C13_EntryCountsSinceSuccess ==
  \A k \in DOMAIN failedAttempts :
    /\ failedAttempts[k].count <= hist.streak[failedAttempts[k].ip]
    /\ failedAttempts[k].lockedUntil # NoLock
         => hist.streak[failedAttempts[k].ip] >= 5

C13_SuccessClearsCounter ==
  /\ []C13_EntryCountsSinceSuccess
  /\ [][\A ip \in Ips :
          (loginTask'[ip] < loginTask[ip] /\ hist'.streak[ip] = 0)
            => ~MapHas(failedAttempts', ip)]_vars

\* a success has put fewer than 5 failures behind it, and the address has
\* since been locked out by 5 new ones
C13_Witness ==
  \E ip \in Ips :
    /\ hist.forgiven[ip] \in 1..4
    /\ hist.streak[ip] = 5
    /\ isRateLimited(ip)


\* the step records a failed login of ip
FailureRecorded(ip) == hist'.streak[ip] = hist.streak[ip] + 1

\* C14 as stated: the n-th failed login in a row (n >= 5) is given the
\* lockout window min(60 s * 2^(n-5), 15 min), and from the 6th on the
\* window is strictly longer than the one the failure before it was given.
C14_WindowByFailureNumber ==
  [][\A ip \in Ips :
       (FailureRecorded(ip) /\ hist'.streak[ip] >= 5)
         => /\ hist'.window[ip] = LockoutWindow(hist'.streak[ip])
            /\ hist'.streak[ip] >= 6 => hist'.window[ip] > hist.window[ip]
    ]_vars

\* C14, amended: a failed login that brings its address's entry to count
\* c >= 5 is given the window min(60 s * 2^(c-5), 15 min); from c = 6 on the
\* window is strictly longer than the one set for count c-1 until that one
\* was the 15 min cap, and equal to it from then on.
C14_WindowByEntryCount ==
  [][\A ip \in Ips :
       (FailureRecorded(ip) /\ MapHas(failedAttempts', ip)
          /\ MapGet(failedAttempts', ip).count >= 5)
         => LET e == MapGet(failedAttempts', ip)
                w == e.lockedUntil - now
            IN /\ w = LockoutWindow(e.count)
               /\ e.count >= 6
                    => \/ w > hist.window[ip]
                       \/ w = 15 /\ hist.window[ip] = 15
    ]_vars

\* the 10th failure in one entry has been given the same 15 min as the 9th
C14_Witness ==
  \E k \in DOMAIN failedAttempts :
    /\ failedAttempts[k].count = 10
    /\ hist.streak[failedAttempts[k].ip] = 10
    /\ hist.window[failedAttempts[k].ip] = 15
    /\ failedAttempts[k].lockedUntil = hist.lockEnd[failedAttempts[k].ip]


\* C15: per address, within one window (60 s from its first admitted write
\* request) at most API_RATE_LIMIT write requests are admitted.
C15_AdmittedPerWindow ==
  \A ip \in Ips : hist.winCount[ip] <= API_RATE_LIMIT


\* the addresses of a table, in the table's order
TableIps(m) == [k \in DOMAIN m |-> m[k].ip]

\* a table holds at most MAX_TRACKED_IPS addresses, each once
TableCapped(m) ==
  /\ Len(m) <= MAX_TRACKED_IPS
  /\ \A j, k \in DOMAIN m : m[j].ip = m[k].ip => j = k

\* a step that gives m a new address keeps that address, as the last one,
\* and when m was full it drops m's first (oldest-inserted) address and no
\* other
InsertEvictsOldest(m, m2) ==
  (m2 # << >> /\ ~MapHas(m, m2[Len(m2)].ip))
    => TableIps(m2) = IF Len(m) = MAX_TRACKED_IPS
                      THEN Append(Tail(TableIps(m)), m2[Len(m2)].ip)
                      ELSE Append(TableIps(m), m2[Len(m2)].ip)

\* C16: after every recordFailedAttempt and isApiRateLimited the failure
\* table and the throttle table each hold at most MAX_TRACKED_IPS addresses;
\* an insertion beyond the cap removes the oldest-inserted entry and never
\* the one just inserted.
C16_TablesCapped ==
  /\ [](TableCapped(failedAttempts) /\ TableCapped(apiRateLimits))
  /\ [][/\ InsertEvictsOldest(failedAttempts, failedAttempts')
        /\ InsertEvictsOldest(apiRateLimits, apiRateLimits')
        /\ \A ip \in Ips :
             hist'.streak[ip] > hist.streak[ip] => MapHas(failedAttempts', ip)
        /\ \A ip \in Ips :
             hist'.winCount[ip] # hist.winCount[ip]
               => MapHas(apiRateLimits', ip)]_vars

\* both tables are full and each has evicted an address that had an entry
C16_Witness ==
  /\ Len(failedAttempts) = MAX_TRACKED_IPS
  /\ \E ip \in Ips : hist.streak[ip] > 0 /\ ~MapHas(failedAttempts, ip)
  /\ Len(apiRateLimits) = MAX_TRACKED_IPS
  /\ \E ip \in Ips : hist.winCount[ip] > 0 /\ ~MapHas(apiRateLimits, ip)


\* a POST /login with the configured credentials adds a token that was not
\* in the table, with expiry now + SESSION_EXPIRY, and saves the table
LoginAddsToken ==
  \A t \in DOMAIN authSessions' \ DOMAIN authSessions :
    /\ authSessions'[t] = now + SESSION_EXPIRY
    /\ authFile' = authSessions'
    /\ resp'.kind = "login" /\ resp'.status = "302" /\ resp'.tok = t

\* after /logout with a token the token is not in the table, and the table
\* is saved
LogoutRemovesToken ==
  (resp'.kind = "logout" /\ resp'.tok \in Tokens)
    => (resp'.tok \notin DOMAIN authSessions' /\ authFile' = authSessions')

\* C17 as stated: login adds a fresh token with expiry now + SESSION_EXPIRY
\* and persists the table; after /logout with that token, or once the time
\* is past that expiry, the token is absent from the table.
C17_AbsentOncePastExpiry ==
  /\ [][LoginAddsToken /\ LogoutRemovesToken]_vars
  /\ [](\A t \in DOMAIN authSessions : ~(now > authSessions[t]))

\* C17, amended: ... once the time is past that expiry the token is no
\* longer accepted by an authentication check, and the first check it is
\* presented to removes it from the table and saves the table.
ExpiredRemovedWhenPresented ==
  (resp'.kind \in {"ws", "http"} /\ resp'.expired)
    => /\ resp'.status \in {"401", "302"}
          => (resp'.tok \notin DOMAIN authSessions'
              /\ authFile' = authSessions')
       /\ resp'.kind = "ws" => resp'.status # "connect"
       /\ (resp'.kind = "http" /\ resp'.route # "terminal")
            => resp'.status # "proxied"

C17_TokenLifecycle ==
  [][LoginAddsToken /\ LogoutRemovesToken /\ ExpiredRemovedWhenPresented]_vars

\* a token was presented to an authentication check after its expiry, was
\* refused, and is gone from the table and from the file
C17_Witness ==
  /\ resp.kind \in {"ws", "http"}
  /\ resp.expired
  /\ resp.status \in {"401", "302"}
  /\ resp.tok \notin DOMAIN authSessions
  /\ authFile = authSessions
  /\ now > SESSION_EXPIRY


\* C18: in every response of GET /api/sessions the sessions flagged active
\* are exactly the sessions of the registry that the lifecycle manager holds
\* a terminal handle for.
C18_ActiveIffHandle ==
  (resp.kind = "api" /\ resp.op = "listSessions")
    => resp.active = {s \in resp.sessions : s \in DOMAIN sessionProcesses}


\* the spawn that POST /api/sessions awaits for session s fails in this step
SpawnFails(s) ==
  /\ ttydTask'[s].pc = "raised"
  /\ ttydTask[s].pc # "raised"
  /\ s \notin Range(respawnList)

\* C19: when the spawn of a session's backend fails during POST
\* /api/sessions, the request is answered 201, the session's descriptor is in
\* the registry (the step removes nothing from it) and the session has no
\* handle.
C19_SpawnFailureStillCreated ==
  [][\A s \in SessionIds :
       SpawnFails(s)
         => /\ resp'.kind = "api"
            /\ resp'.op = "createSession"
            /\ resp'.status = 201
            /\ \/ registry' = registry
               \/ registry' = Append(registry, s)
            /\ ttydTask[s].pc = "none" => s \in Range(registry')
            /\ s \notin DOMAIN sessionProcesses']_vars

\* a session created in this run is in the registry without a handle, its
\* spawn having failed, and the answer was 201
C19_Witness ==
  /\ resp.kind = "api"
  /\ resp.op = "createSession"
  /\ resp.status = 201
  /\ \E s \in Range(registry) \ Range(respawnList) :
       /\ ttydTask[s].pc = "raised"
       /\ s \notin DOMAIN sessionProcesses


\* C20: a POST /api/sessions with such a body (from a client that is logged
\* in and within its request allowance) is answered 400, and the registry,
\* the handle map and the port-allocation set are the same after it as
\* before.
C20_InvalidBodyRejected ==
  [][(hist'.winCount # hist.winCount /\ hist'.posted = "invalid")
       => /\ resp'.kind = "api"
          /\ resp'.op = "createSession"
          /\ resp'.status = 400
          /\ UNCHANGED <<registry, sessionProcesses, ttydAllocated>>]_vars

\* a body naming a folder that does not exist was answered 400 while a
\* session with a handle and a reserved port was there to be kept
C20_Witness ==
  /\ resp.kind = "api"
  /\ resp.op = "createSession"
  /\ resp.status = 400
  /\ resp.error = "Folder does not exist"
  /\ hist.posted = "invalid"
  /\ registry # << >>
  /\ DOMAIN sessionProcesses # {}
  /\ ttydAllocated # {}

C23_OnlyPrefixedPathsBare ==
  [][(hist'.requests # hist.requests /\ resp'.kind = "page")
       => (/\ (resp'.route \in {"terminal", "code"} /\ resp'.relayed)
                => (~resp'.headers.base /\ resp'.headers.csp # "gateway")
           /\ (resp'.route \notin {"terminal", "code"} /\ ~resp'.relayed)
                => (/\ resp'.headers.base
                    /\ resp'.headers.csp = "gateway"
                    /\ resp'.headers.nonce \notin hist.nonces
                    /\ resp'.headers.nonce \in hist'.nonces))]_vars

\* C23 (amended): the same, with the path /terminal itself counted among the
\* paths that are handed to the proxy before the headers are set.
C23_ProxyPathsBare ==
  [][(hist'.requests # hist.requests /\ resp'.kind = "page")
       => (/\ (resp'.route \in {"terminal", "terminalRoot", "code"}
                /\ resp'.relayed)
                => (~resp'.headers.base /\ resp'.headers.csp # "gateway")
           /\ (resp'.route \notin {"terminal", "terminalRoot", "code"}
                /\ ~resp'.relayed)
                => (/\ resp'.headers.base
                    /\ resp'.headers.csp = "gateway"
                    /\ resp'.headers.nonce \notin hist.nonces
                    /\ resp'.headers.nonce \in hist'.nonces))]_vars

\* a forwarded /code/ request was relayed after another request had been
\* given a nonce
C23_Witness ==
  /\ resp.kind = "page"
  /\ resp.route = "code"
  /\ resp.relayed
  /\ hist.nonces # {}

\* C24: removeTool and updateTool called with the id of a builtin tool raise
\* an error and leave the persisted custom-tool list unchanged; an admitted
\* DELETE /api/tools/<builtin id> is answered 400; and getAvailableTools lists
\* every builtin entry unmodified, whatever has been called before.
C24_BuiltinsProtected ==
  /\ [][\A id \in BuiltinIds :
          /\ (\E t \in Tokens :
                 ~isApiRateLimited(Owner) /\ DeleteTools(Owner, t, id))
               => (/\ resp'.status = 400
                   /\ resp'.error = "Cannot remove a builtin tool"
                   /\ UNCHANGED toolsFile)
          /\ (\E n \in {"Mine", Undefined},
                  c \in {"mytool", "mytool; id", Undefined} :
                 UpdateToolCall(id, n, c))
               => (/\ resp'.error = "Cannot modify a builtin tool"
                   /\ UNCHANGED toolsFile)]_vars
  /\ [](\A i \in DOMAIN BUILTIN_TOOLS :
          LET e == getAvailableTools({})[i]
          IN /\ e.builtin
             /\ e.id = BUILTIN_TOOLS[i].id
             /\ e.name = BUILTIN_TOOLS[i].name
             /\ e.command = BUILTIN_TOOLS[i].command)

\* a DELETE of a builtin tool was refused while a custom tool was on file
C24_Witness ==
  /\ resp.kind = "api"
  /\ resp.op = "removeTool"
  /\ resp.status = 400
  /\ resp.id \in BuiltinIds
  /\ toolsFile # << >>

\* C25 (as stated): once hideDelay has passed since the most recent call of
\* showOverlay or resetHideTimer the overlay is hidden, and not before if that
\* call left it visible; at most one hide timer is pending at any time.
C25_HiddenExactlyAfterDelay ==
  /\ Cardinality(timers) <= 1
  /\ (dropHist.armed /\ pageNow > dropHist.at + hideDelay)
       => (~visible /\ ~overlayClass)
  /\ (dropHist.armed /\ dropHist.shown /\ pageNow < dropHist.at + hideDelay)
       => (visible /\ overlayClass)

\* C25 (amended): the same, for as long as no call of hideOverlay, handleDrop,
\* clearHideTimer or detach and no dragleave out of the viewport has come
\* after the most recent call of showOverlay or resetHideTimer; the pending
\* timer, if any, is the one hideTimer names.
C25_HiddenAfterDelayUnlessCancelled ==
  /\ Cardinality(timers) <= 1
  /\ (hideTimer = NoTimer) <=> (timers = {})
  /\ \A t \in timers : t.id = hideTimer
  /\ (dropHist.armed /\ ~dropHist.cancelled
        /\ pageNow > dropHist.at + hideDelay)
       => (~visible /\ ~overlayClass)
  /\ (dropHist.armed /\ ~dropHist.cancelled /\ dropHist.shown
        /\ pageNow < dropHist.at + hideDelay)
       => (visible /\ overlayClass)

\* the overlay went hidden by the timer of the second call, which had
\* replaced the timer of the first
C25_Witness ==
  /\ dropHist.armed
  /\ ~dropHist.cancelled
  /\ dropHist.shown
  /\ pageNow > dropHist.at + hideDelay
  /\ ~visible
  /\ timerSeq >= 2

\* C26: handleDrop always prevents the default action, hides the overlay and
\* cancels the pending hide timer; it calls onFiles once, with the dropped
\* files, when dataTransfer holds at least one file, and not at all when the
\* list is empty or dataTransfer is missing.
C26_DropHidesAndDelivers ==
  [][\A e \in DropEvents :
       HandleDrop(e)
         => (/\ resp'.prevented
             /\ ~visible' /\ ~overlayClass'
             /\ hideTimer' = NoTimer /\ timers' = {}
             /\ IF e.dataTransfer = "object" /\ e.files # << >>
                THEN onFilesCalls' = Append(onFilesCalls, e.files)
                ELSE onFilesCalls' = onFilesCalls)]_vars

\* two files were dropped on the shown overlay and handed to onFiles
C26_Witness ==
  /\ resp.kind = "page"
  /\ resp.op = "handleDrop"
  /\ timerSeq >= 1
  /\ onFilesCalls = << <<"f1", "f2">> >>

\* C27: handleMessage shows the overlay (and arms the hide timer) for a
\* message of type 'iframe-drag' with event 'dragenter'; every other message
\* leaves the overlay's visibility and the pending hide timer unchanged.
C27_OnlyDragEnterShows ==
  [][\A e \in Messages :
       HandleMessage(e)
         => IF e.type = "iframe-drag" /\ e.event = "dragenter"
            THEN /\ visible' /\ overlayClass'
                 /\ timers' = {[id |-> hideTimer',
                                due |-> pageNow + hideDelay]}
            ELSE UNCHANGED <<visible, overlayClass, hideTimer, timers>>]_vars

\* an iframe's dragleave message was ignored while the overlay was shown and
\* its timer pending
C27_Witness ==
  /\ resp.kind = "page"
  /\ resp.op = "handleMessage"
  /\ resp.data = [type |-> "iframe-drag", event |-> "dragleave"]
  /\ visible
  /\ hideTimer # NoTimer

\* C28: the first injectIframe on a same-origin iframe whose document has a
\* body returns true, marks the iframe and installs the four listeners; every
\* later call on it returns false and adds none; on a cross-origin iframe or
\* one without a body it returns false and leaves the iframe unmarked.
C28_InjectedAtMostOnce ==
  /\ [][\A f \in IframeIds :
          InjectIframe(f)
            => IF ~iframes[f].injected /\ iframes[f].origin = "same"
                  /\ iframes[f].body
               THEN /\ resp'.returned
                    /\ iframes'[f].injected
                    /\ iframes'[f].listeners = iframes[f].listeners + 4
                    /\ \A g \in IframeIds \ {f} : iframes'[g] = iframes[g]
               ELSE /\ ~resp'.returned
                    /\ iframes' = iframes]_vars
  /\ [](\A f \in IframeIds :
          /\ iframes[f].listeners = IF iframes[f].injected THEN 4 ELSE 0
          /\ iframes[f].injected => iframes[f].origin = "same")

\* a call on the iframe that had been injected returned false
C28_Witness ==
  /\ resp.kind = "page"
  /\ resp.op = "injectIframe"
  /\ resp.iframe = "i1"
  /\ ~resp.returned
  /\ iframes["i1"].injected
  /\ iframes["i1"].listeners = 4

\* C29: while the failure table holds a running lockout for an address, no
\* POST /login from that address has its password verified, not even one that
\* had passed the lockout check and was reading its body when the lockout
\* began.
C29_NoVerificationWhileLocked ==
  [][\A ip \in Ips :
       isRateLimited(ip) => loginTask'[ip] >= loginTask[ip]]_vars

\* C30: when the launch of a backend fails after the allocator has reserved
\* a port, the port is no longer in the allocation set afterwards and no
\* handle has been recorded for the session or folder.
C30_FailedLaunchReleasesPort ==
  [][/\ \A s \in SessionIds :
          TtydLaunchRaises(s)
            => (/\ ttydTask[s].port \notin ttydAllocated'
                /\ sessionProcesses' = sessionProcesses)
     /\ \A r \in CsSlots :
          CsLaunchRaises(r)
            => (/\ csTask[r].port \notin csAllocated'
                /\ codeServerProcesses' = codeServerProcesses)]_vars

\* C31: a request to a protected route whose cookie is not a valid session
\* leaves the session registry, the custom-tool list, both handle maps, both
\* allocation sets and the API-throttle table as they were.
C31_UnauthenticatedChangesNothing ==
  [][\A t \in Tokens \cup {NoToken} :
       (/\ ~ValidCookie(t)
        /\ \/ \E route \in ProtectedRoutes : GateRedirect(route, t)
           \/ \E id \in SessionIds : DeleteSession(t, id)
           \/ \E b \in GateToolBodies : PostTools(Owner, t, b)
           \/ StartCodeServer(t, "fA")
           \/ StopCodeServer(t, "fA"))
       => UNCHANGED <<registry, toolsFile, sessionProcesses,
                      codeServerProcesses, ttydAllocated, csAllocated,
                      apiRateLimits>>]_vars

\* a request with an expired cookie was turned away while a session, a tool
\* and a backend were there to be changed
C31_Witness ==
  /\ resp.kind = "gate"
  /\ resp.status = "302"
  /\ resp.expired
  /\ registry # << >>
  /\ toolsFile # << >>
  /\ DOMAIN sessionProcesses # {}

\* C32: while an address is inside its lockout window, a failed login of
\* another address never removes its entry from the login-failure table: it
\* stays locked out until the window expires.
C32_EvictionSparesLockedOut ==
  [][\A ip \in Ips :
       (/\ isRateLimited(ip)
        /\ \E other \in Ips \ {ip} : FailureRecorded(other))
       => /\ MapHas(failedAttempts', ip)
          /\ MapGet(failedAttempts', ip) = MapGet(failedAttempts, ip)]_vars

\* both folders have a backend that is listening, on different ports
BothEditorsLive ==
  /\ \A f \in Folders : Listening(getCodeServerPort(f))
  /\ \A f, g \in Folders :
       getCodeServerPort(f) = getCodeServerPort(g) => f = g

\* C33: with editor backends of two folders live, an absolute-path request
\* or WebSocket upgrade of the page served from one folder's editor goes to
\* that folder's backend, whichever editor the browser visited last.
C33_PageReachesOwnBackend ==
  (resp.kind = "editor" /\ resp.authed /\ BothEditorsLive)
    => /\ resp.status \in {"proxied", "connect"}
       /\ resp.port = getCodeServerPort(resp.page)

\* the step handles a request on a path where isAuthenticated is called and
\* its verdict shows in the answer
AuthChecked ==
  \/ resp'.kind = "http" /\ resp'.route \in {"code", "other"}
  \/ resp'.kind = "ws" /\ resp'.route \in {"terminal", "code"}

\* ... and the verdict was true
AuthAccepted == resp'.status \notin {"302", "401"}

\* C34: isAuthenticated returns true only when the session_token cookie is a
\* key of the auth-session table whose expiry has not passed; when it finds
\* an expired entry it deletes it, saves the table and returns false; in
\* every other case the table and its file stay as they were.
C34_IsAuthenticatedContract ==
  [][AuthChecked =>
       /\ AuthAccepted => /\ resp'.tok \in DOMAIN authSessions
                           /\ now <= authSessions[resp'.tok]
       /\ IF resp'.tok \in DOMAIN authSessions
             /\ now > authSessions[resp'.tok]
          THEN /\ ~AuthAccepted
               /\ authSessions' = MapRemove(authSessions, resp'.tok)
               /\ authFile' = authSessions'
          ELSE /\ authSessions' = authSessions
               /\ authFile' = authFile]_vars

\* an upgrade to an editor path presented an expired token: it was answered
\* 401 and the token is gone from table and file
C34_Witness ==
  /\ resp.kind = "ws"
  /\ resp.route = "code"
  /\ resp.expired
  /\ resp.status = "401"
  /\ resp.tok \notin DOMAIN authSessions
  /\ resp.tok \notin DOMAIN authFile

\* the step changed the auth-session table by a login, by a logout that
\* named a token, or by an authentication check that found an expired entry
AuthTableWritten ==
  \/ resp'.kind = "login" /\ resp'.status = "302"
  \/ resp'.kind = "logout" /\ resp'.tok \in Tokens
  \/ resp'.kind = "http" /\ resp'.route # "terminal" /\ resp'.expired

\* C35: after every login, logout and expiry-triggered deletion the
\* auth-session file holds exactly the tokens and expiries of the table; a
\* restart rebuilds the table with exactly the persisted tokens whose expiry
\* is still in the future, so that a token of the table whose expiry is still
\* in the future is in the table, with its expiry, after the restart.
C35_TablePersisted ==
  [][/\ AuthTableWritten => authFile' = authSessions'
     /\ resp'.kind = "restart"
          => /\ DOMAIN authSessions' =
                  {t \in DOMAIN authFile : authFile[t] > now}
             /\ \A t \in DOMAIN authSessions' :
                  authSessions'[t] = authFile[t]
             /\ \A t \in DOMAIN authSessions :
                  authSessions[t] > now
                    => /\ t \in DOMAIN authSessions'
                       /\ authSessions'[t] = authSessions[t]]_vars

\* a token issued by a login has come through a restart and is still valid
C35_Witness ==
  /\ resp.kind = "restart"
  /\ \E t \in DOMAIN authSessions :
       authSessions[t] > SESSION_EXPIRY /\ ValidCookie(t)

\* C36: every entry of the login-failure table is eventually deleted by the
\* periodic sweep once its address fails no more, whether or not the address
\* reached the 5 failures that set a lockout time.  (Each address fails
\* finitely often here, so every entry has to go in the end.)
C36_EveryEntrySwept ==
  \A ip \in Ips : MapHas(failedAttempts, ip) ~> ~MapHas(failedAttempts, ip)

\* C37: a scan of getAvailablePort that ends while every port of the range is
\* reserved or listening returns no port, reserves nothing and leaves the
\* allocation set and the handle map as they were; a scan that returns a
\* port returns the lowest port that is neither reserved nor listening.
C37_ScanReturnsLowestFree ==
  [][\A s \in SessionIds :
       TtydProbeReturn(s) =>
         LET p == ttydTask[s].port
             Busy(q) == q \in ttydAllocated \/ Listening(q)
         IN /\ ttydTask'[s].pc = "done"
                 => /\ ~Busy(p)
                    /\ \A q \in TTYD_PORT_RANGE_START .. (p - 1) : Busy(q)
            /\ (\A q \in TtydPorts : Busy(q))
                 => /\ ttydTask'[s].pc # "done"
                    /\ ttydAllocated' = ttydAllocated
                    /\ sessionProcesses' = sessionProcesses]_vars

\* the step is a session create that got as far as its write
CreateWrites == usedIds' # usedIds

\* the step is a session delete that was answered 200
DeleteWrites ==
  resp'.kind = "api" /\ resp'.op = "deleteSession" /\ resp'.status = 200

\* C38: every successful create appends its session to the registry as it is
\* at that moment, every successful delete removes its session from the
\* registry as it is at that moment, and nothing else writes the registry:
\* the registry is always the result of the creates and deletes so far, one
\* after the other (no update is lost).
C38_NoLostUpdate ==
  [][/\ CreateWrites
          => \E id \in usedIds' \ usedIds : registry' = Append(registry, id)
     /\ DeleteWrites
          => \E id \in Range(registry) :
               registry' = SelectSeq(registry, LAMBDA x : x # id)
     /\ (~CreateWrites /\ ~DeleteWrites) => registry' = registry]_vars

\* a session was deleted while the create of another was waiting for its
\* backend, and the other is still on file
C38_Witness ==
  /\ resp.kind = "api"
  /\ resp.op = "deleteSession"
  /\ resp.status = 200
  /\ \E s \in Range(registry) :
       s \notin Range(respawnList) /\ ttydTask[s].pc = "probe"

\* C39: every custom tool in tools.json has an id of letters, digits and
\* hyphens that no builtin and no other custom tool has, a name that is not
\* empty, and a command that is not empty and has no shell metacharacter.
C39_PersistedToolsValid ==
  \A i \in DOMAIN toolsFile :
    /\ toolsFile[i].id \in {"claude", "codex", "my-tool"}
    /\ toolsFile[i].id \notin BuiltinIds
    /\ \A j \in DOMAIN toolsFile : toolsFile[j].id = toolsFile[i].id => j = i
    /\ toolsFile[i].name \notin {"", "  "}
    /\ toolsFile[i].command \in {"mytool", " mytool "}

\* a string without its carriage returns and line feeds
Clean(str) == SelectSeq(str, LAMBDA c : c # CR /\ c # LF)

\* the lines of a text: the pieces between one CR LF and the next
RECURSIVE SplitLines(_, _, _)
SplitLines(text, i, cur) ==
  IF i > Len(text) THEN (IF cur = << >> THEN << >> ELSE <<cur>>)
  ELSE IF text[i] = CR /\ i < Len(text) /\ text[i + 1] = LF
  THEN <<cur>> \o SplitLines(text, i + 2, << >>)
  ELSE SplitLines(text, i + 1, Append(cur, text[i]))

\* C40: the request written to the backend on an upgrade is the request line,
\* one line per header of the client's request in the same order and with
\* the same name, and the empty line; every Host header reads
\* localhost:<port>, every Origin header http://localhost:<port>, and there
\* is no CR or LF inside the request target, a header name or a header value.
C40_HandshakeWellFormed ==
  resp.kind = "upstream" =>
    LET lines == SplitLines(resp.out, 1, << >>)
        n == Len(resp.rawHeaders) \div 2
    IN /\ Len(lines) = n + 2
       /\ \A k \in DOMAIN lines : \A j \in DOMAIN lines[k] :
            lines[k][j] # CR /\ lines[k][j] # LF
       /\ lines[1] = <<resp.method, " ">> \o Clean(resp.url) \o <<" HTTP/", "1.1">>
       /\ lines[n + 2] = << >>
       /\ \A k \in 1..n :
            LET name == Clean(resp.rawHeaders[2 * k - 1])
                value ==
                  IF name \in {<<"Host">>, <<"host">>}
                  THEN <<"localhost:", ToString(resp.port)>>
                  ELSE IF name = <<"Origin">>
                  THEN <<"http://localhost:", ToString(resp.port)>>
                  ELSE Clean(resp.rawHeaders[2 * k])
            IN lines[k + 1] = name \o <<": ">> \o value

\* a request with a line break in its target and in a header value, and with
\* Host and Origin headers, was written to a backend
C40_Witness ==
  /\ resp.kind = "upstream"
  /\ \E j \in DOMAIN resp.url : resp.url[j] = LF
  /\ \E k \in DOMAIN resp.rawHeaders :
       resp.rawHeaders[k] = <<"host">>
  /\ \E k \in DOMAIN resp.rawHeaders :
       resp.rawHeaders[k] = <<"Origin">>

====
